---- MODULE Spec2Model ----
(***************************************************************************)
(* A model of TemplateProcessor (src/unnamed/part_000, whose first line    *)
(* names it src/TemplateProcessor.ts).                                     *)
(*                                                                         *)
(* Text is a sequence of tokens.  A token is one lexical unit the          *)
(* processor's regular expressions tell apart: a placeholder {key}, a loop *)
(* marker, a section / block / reorder comment marker, an inline swap      *)
(* directive, a character that escapeHtml rewrites, a whitespace character *)
(* or a chunk of other text.  Every token is a record [k, a, b].           *)
(***************************************************************************)
EXTENDS Integers, Sequences, FiniteSets, TLC

Tok(k, a, b) == [k |-> k, a |-> a, b |-> b]
Txt(s)       == Tok("txt", s, "")      \* a chunk of ordinary text
Raw(c)       == Tok("raw", c, "")      \* amp, lt, gt, quot or apos: & < > " and the single quote
Ws(c)        == Tok("ws", c, "")       \* "sp" (space) or "nl" (newline)
Ph(key)      == Tok("ph", key, "")     \* {key}
LoopStart(n) == Tok("ls", n, "")       \* {LOOP_START:n}
LoopEnd(n)   == Tok("le", n, "")       \* {LOOP_END:n}
SecOpen(n)   == Tok("so", n, "")       \* <!-- n section -->
SecClose(n)  == Tok("sc", n, "")       \* <!-- Endn section -->
BlockOpen(i) == Tok("bo", i, "")       \* <!-- BLOCK:i -->
BlockClose(i) == Tok("bc", i, "")      \* <!-- ENDBLOCK:i -->
ReorderOpen  == Tok("ro", "", "")      \* <!-- REORDER -->
ReorderClose == Tok("rc", "", "")      \* <!-- ENDREORDER -->
Swap(x, y)   == Tok("swap", x, y)      \* {SWAP:x:y}
Open(tag, attr) == Tok("open", tag, attr)  \* <tag attr>, attr "id:x", "class:x" or ""
Close(tag)   == Tok("close", tag, "")  \* </tag>
TagStart(tag, attr) == Tok("tagstart", tag, attr)  \* <tag attr href=" with the tag still open
TagEnd       == Tok("tagend", "", "")  \* "> closing the tag that a TagStart opened
Nl           == Ws("nl")
Sp           == Ws("sp")
Dollar       == Txt("dollar")       \* the character $
Backtick     == Txt("backtick")     \* the character U+0060

\* F applied to the value of e, which is worked out once.
With(e, F(_)) == CHOOSE r \in {F(v) : v \in {e}} : TRUE

\* Sequence helpers.
RECURSIVE FlattenFrom(_, _)
FlattenFrom(ss, i) == IF i > Len(ss) THEN <<>> ELSE ss[i] \o FlattenFrom(ss, i + 1)

Flatten(ss) == With(ss, LAMBDA v : FlattenFrom(v, 1))

MapSeq(Op(_), s) == With(s, LAMBDA v : Flatten([i \in 1..Len(v) |-> Op(v[i])]))

Slice(s, i, j) == IF i > j THEN <<>> ELSE SubSeq(s, i, j)

\* indexOf: the least index at which sub occurs in s, 0 when there is none.
OccursAt(sub, s, i) ==
    /\ i >= 1
    /\ i + Len(sub) - 1 <= Len(s)
    /\ SubSeq(s, i, i + Len(sub) - 1) = sub

IndexOf(sub, s) ==
    LET hits == {i \in 1..(Len(s) + 1) : OccursAt(sub, s, i)}
    IN  IF hits = {} THEN 0 ELSE CHOOSE i \in hits : \A j \in hits : i <= j

Contains(sub, s) == IndexOf(sub, s) # 0

HasTok(t, s) == \E i \in 1..Len(s) : s[i] = t

(***************************************************************************)
(* Data values.  A context maps keys to values; a value is a record        *)
(* [ty, s, n, items, m]: a string (its tokens in s), a number (n counts    *)
(* its tenths, so that 2.5 is n = 25), a boolean (n = 1 for true), null,   *)
(* undefined, an array of contexts (items) or a nested mapping m.  A       *)
(* string value holds text, raw characters,                                *)
(* whitespace and brace markers; a comment marker inside a value is spelt  *)
(* with its raw angle brackets.                                            *)
(***************************************************************************)
Val(ty, s, n, items, m) == [ty |-> ty, s |-> s, n |-> n, items |-> items, m |-> m]
Str(s)     == Val("str", s, 0, <<>>, <<>>)
Num(n)     == Val("num", <<>>, 10 * n, <<>>, <<>>)
Dec(t)     == Val("num", <<>>, t, <<>>, <<>>)
Bool(b)    == Val("bool", <<>>, IF b THEN 1 ELSE 0, <<>>, <<>>)
Null       == Val("null", <<>>, 0, <<>>, <<>>)
Undefined  == Val("undef", <<>>, 0, <<>>, <<>>)
Arr(items) == Val("arr", <<>>, 0, items, <<>>)
Obj(m)     == Val("obj", <<>>, 0, <<>>, m)

hasOwnProperty(ctx, key) == key \in DOMAIN ctx

\* data[key]: undefined when the key is absent.
Get(ctx, key) == IF key \in DOMAIN ctx THEN ctx[key] ELSE Undefined

\* JavaScript truthiness.
Truthy(v) ==
    CASE v.ty = "str"  -> v.s # <<>>
      [] v.ty = "num"  -> v.n # 0
      [] v.ty = "bool" -> v.n = 1
      [] v.ty = "arr"  -> TRUE
      [] v.ty = "obj"  -> TRUE
      [] OTHER         -> FALSE

\* a || b
OrElse(a, b) == With(a, LAMBDA v : IF Truthy(v) THEN v ELSE b)

\* String(number) for a number of t tenths.
NumberText(t) ==
    IF t % 10 = 0 THEN ToString(t \div 10)
    ELSE IF t < 0 THEN "-" \o ToString((-t) \div 10) \o "." \o ToString((-t) % 10)
    ELSE ToString(t \div 10) \o "." \o ToString(t % 10)

\* String(value) for a value that is neither null nor undefined.
ToText(v) ==
    CASE v.ty = "str"  -> v.s
      [] v.ty = "num"  -> <<Txt(NumberText(v.n))>>
      [] v.ty = "bool" -> <<Txt(IF v.n = 1 THEN "true" ELSE "false")>>
      [] v.ty = "arr"  ->
            Flatten([i \in 1..Len(v.items) |->
                        IF i = 1 THEN <<Txt("[object Object]")>>
                        ELSE <<Txt(","), Txt("[object Object]")>>])
      [] v.ty = "obj"  -> <<Txt("[object Object]")>>
      [] OTHER         -> <<Txt(v.ty)>>

\* Whether s.trim() is the empty string.
IsBlank(s) == \A i \in 1..Len(s) : s[i].k = "ws"

(***************************************************************************)
(* Value Renderer.                                                         *)
(***************************************************************************)
EntityTails == {"amp;", "lt;", "gt;", "quot;", "#39;"}

\* The entity that replaces a character: an ampersand and the entity's tail.
EntityOf(c) ==
    CASE c = "amp"  -> <<Raw("amp"), Txt("amp;")>>
      [] c = "lt"   -> <<Raw("amp"), Txt("lt;")>>
      [] c = "gt"   -> <<Raw("amp"), Txt("gt;")>>
      [] c = "quot" -> <<Raw("amp"), Txt("quot;")>>
      [] c = "apos" -> <<Raw("amp"), Txt("#39;")>>
      [] OTHER      -> <<Raw(c)>>

\* str.replace(/c/g, entity): every raw character c becomes its entity.
ReplaceChar(s, c) == MapSeq(LAMBDA t : IF t = Raw(c) THEN EntityOf(c) ELSE <<t>>, s)

\* A variant of escapeHtml that leaves the single quote alone.
escapeHtmlNoApos(v) ==
    IF v.ty \in {"null", "undef"} THEN <<>>
    ELSE ReplaceChar(ReplaceChar(ReplaceChar(ReplaceChar(ToText(v),
             "amp"), "lt"), "gt"), "quot")

escapeHtml(v) ==
    IF v.ty \in {"null", "undef"} THEN <<>>
    ELSE ReplaceChar(ReplaceChar(ReplaceChar(ReplaceChar(ReplaceChar(ToText(v),
             "amp"), "lt"), "gt"), "quot"), "apos")

\* encodeURIComponent on one token: the unreserved characters (letters,
\* digits and - _ . ! ~ * ' ( )) stay, every other character is percent-encoded.
EncodeTok(t) ==
    CASE t.k = "raw" /\ t.a = "apos" -> <<t>>
      [] t.k = "raw" /\ t.a = "amp"  -> <<Txt("%26")>>
      [] t.k = "raw" /\ t.a = "lt"   -> <<Txt("%3C")>>
      [] t.k = "raw" /\ t.a = "gt"   -> <<Txt("%3E")>>
      [] t.k = "raw" /\ t.a = "quot" -> <<Txt("%22")>>
      [] t.k = "ws"                  -> <<Txt(IF t.a = "nl" THEN "%0A" ELSE "%20")>>
      [] t = Dollar                  -> <<Txt("%24")>>
      [] t = Backtick                -> <<Txt("%60")>>
      [] t.k = "txt"                 -> <<t>>
      [] OTHER                       -> <<Txt("%7B"), Txt(t.k), Txt(t.a), Txt(t.b), Txt("%7D")>>

encodeURIComponent(s) == MapSeq(EncodeTok, s)

VCardPrefix == Txt("data:text/vcard;charset=utf-8,")
Filled == Txt("filled-star")
Empty  == Txt("empty-star")

Repeat(t, n) == [i \in 1..n |-> t]

Min(x, y) == IF x <= y THEN x ELSE y
Max(x, y) == IF x >= y THEN x ELSE y

\* The numerals a string value may hold, and the number each denotes, in
\* tenths.
NumeralTenths == {10 * n : n \in -1..7} \cup {-5, 25, 59}
Numerals == {NumberText(t) : t \in NumeralTenths}
NumeralValue(str) == CHOOSE t \in NumeralTenths : NumberText(t) = str

\* Math.floor of a number of t tenths, in units.
MathFloor(t) == t \div 10

\* The variant that does not cap the filled glyphs at five.
filledStarsUncapped(numericValue) == Max(0, MathFloor(numericValue))

\* filledStars, from a number in tenths.
filledStars(numericValue) == Min(5, Max(0, MathFloor(numericValue)))

\* parseFloat: leading whitespace is skipped, then a numeral must follow;
\* what follows the numeral is ignored.  A string holds at most one
\* numeral token.  The result is [nan, n], n in tenths.
RECURSIVE parseFloat(_)
parseFloat(s) ==
    IF s = <<>> THEN [nan |-> TRUE, n |-> 0]
    ELSE IF Head(s).k = "ws" THEN parseFloat(Tail(s))
    ELSE IF Head(s).k = "txt" /\ Head(s).a \in Numerals
         THEN [nan |-> FALSE, n |-> NumeralValue(Head(s).a)]
    ELSE [nan |-> TRUE, n |-> 0]

processSpecialPlaceholder(value, placeholder) ==
    CASE placeholder = "addContact" ->
            <<VCardPrefix>> \o
            encodeURIComponent(IF Truthy(value) THEN ToText(value) ELSE <<>>)
      [] placeholder = "stars" ->
            LET numericValue ==
                    CASE value.ty = "str" -> parseFloat(value.s)
                      [] value.ty = "num" -> [nan |-> FALSE, n |-> value.n]
                      [] OTHER            -> [nan |-> TRUE, n |-> 0]
            IN  IF ~numericValue.nan /\ numericValue.n >= 0
                THEN With(filledStars(numericValue.n), LAMBDA filled :
                        Repeat(Filled, filled) \o Repeat(Empty, 5 - filled))
                ELSE Repeat(Filled, 5)
      [] OTHER -> escapeHtml(value)

(***************************************************************************)
(* Placeholder Resolver.  The delimiters are the default { and }.          *)
(***************************************************************************)
\* The variant that drops the token of a key the data does not own.
replacePlaceholdersDropping(template, data) ==
    MapSeq(LAMBDA t :
              IF t.k = "ph"
              THEN IF hasOwnProperty(data, t.a)
                   THEN processSpecialPlaceholder(data[t.a], t.a)
                   ELSE <<>>
              ELSE <<t>>,
           template)

replacePlaceholders(template, data) ==
    MapSeq(LAMBDA t :
              IF t.k = "ph"
              THEN IF hasOwnProperty(data, t.a)
                   THEN processSpecialPlaceholder(data[t.a], t.a)
                   ELSE <<t>>
              ELSE <<t>>,
           template)

PlaceholderAsset == Txt("/images/placeholder.jpg")

\* No value of the model is a File.
processImageUrl(url) ==
    CASE url.ty = "str"              -> escapeHtml(url)
      [] url.ty \in {"null", "undef"} -> <<PlaceholderAsset>>
      [] OTHER                        -> escapeHtml(Str(ToText(url)))

\* placeholder.endsWith('Url') || includes('image') || includes('photo'),
\* over the keys the model uses.
IsImageKey(placeholder) == placeholder \in {"imageUrl", "photo"}

RenderInLoop(value, placeholder) ==
    IF IsImageKey(placeholder) THEN processImageUrl(value)
    ELSE processSpecialPlaceholder(value, placeholder)

\* The variant that asks the global data before the item.
processComplexDataInLoopGlobalFirst(itemTemplate, item, globalData) ==
    MapSeq(LAMBDA t :
              IF t.k = "ph"
              THEN IF hasOwnProperty(globalData, t.a)
                   THEN RenderInLoop(globalData[t.a], t.a)
                   ELSE IF hasOwnProperty(item, t.a)
                   THEN RenderInLoop(item[t.a], t.a)
                   ELSE <<t>>
              ELSE <<t>>,
           itemTemplate)

processComplexDataInLoop(itemTemplate, item, globalData) ==
    MapSeq(LAMBDA t :
              IF t.k = "ph"
              THEN IF hasOwnProperty(item, t.a)
                   THEN RenderInLoop(item[t.a], t.a)
                   ELSE IF hasOwnProperty(globalData, t.a)
                   THEN RenderInLoop(globalData[t.a], t.a)
                   ELSE <<t>>
              ELSE <<t>>,
           itemTemplate)

(***************************************************************************)
(* String.prototype.replace with a replacement STRING: the replacement's   *)
(* dollar patterns are expanded ($$ is a dollar sign, $& the matched text, *)
(* $` the text before the match, $' the text after it; $1.. stay as they   *)
(* are when the pattern has no capture group).                             *)
(***************************************************************************)
\* The expansion of replacement from its k-th token on.
RECURSIVE SubstituteFrom(_, _, _, _, _)
SubstituteFrom(replacement, k, matched, before, after) ==
    IF k > Len(replacement) THEN <<>>
    ELSE IF replacement[k] = Dollar /\ k < Len(replacement)
    THEN CASE replacement[k + 1] = Dollar ->
                <<Dollar>> \o SubstituteFrom(replacement, k + 2, matched, before, after)
           [] replacement[k + 1] = Raw("amp") ->
                matched \o SubstituteFrom(replacement, k + 2, matched, before, after)
           [] replacement[k + 1] = Backtick ->
                before \o SubstituteFrom(replacement, k + 2, matched, before, after)
           [] replacement[k + 1] = Raw("apos") ->
                after \o SubstituteFrom(replacement, k + 2, matched, before, after)
           [] OTHER ->
                <<Dollar>> \o SubstituteFrom(replacement, k + 1, matched, before, after)
    ELSE <<replacement[k]>> \o SubstituteFrom(replacement, k + 1, matched, before, after)

GetSubstitution(replacement, matched, before, after) ==
    With(<<replacement, matched, before, after>>,
         LAMBDA v : SubstituteFrom(v[1], 1, v[2], v[3], v[4]))

\* str.replace(searchString, replacement): the first occurrence is replaced.
StringReplace(str, searchString, replacement) ==
    With(<<str, searchString>>, LAMBDA v :
      With(IndexOf(v[2], v[1]), LAMBDA i :
        IF i = 0 THEN v[1]
        ELSE With(<<Slice(v[1], 1, i - 1), Slice(v[1], i + Len(v[2]), Len(v[1]))>>,
                  LAMBDA c : c[1] \o GetSubstitution(replacement, v[2], c[1], c[2]) \o c[2])))

(***************************************************************************)
(* Loop Expander.                                                          *)
(***************************************************************************)
\* loopRegex.exec(result) from lastIndex 0: the leftmost {LOOP_START:n} that
\* has a {LOOP_END:n} after it, up to the first such end marker.
LoopStarts(text) ==
    {i \in 1..Len(text) :
        /\ text[i].k = "ls"
        /\ \E j \in (i + 1)..Len(text) : text[j] = LoopEnd(text[i].a)}

HasLoopMatch(text) == LoopStarts(text) # {}

LoopMatch(text) ==
    With(LoopStarts(text), LAMBDA S :
      With(CHOOSE x \in S : \A y \in S : x <= y, LAMBDA i :
        With(CHOOSE x \in (i + 1)..Len(text) :
                /\ text[x] = LoopEnd(text[i].a)
                /\ \A y \in (i + 1)..(x - 1) : text[y] # LoopEnd(text[i].a),
             LAMBDA j :
               [first |-> i, last |-> j, loopName |-> text[i].a,
                loopTemplate |-> Slice(text, i + 1, j - 1),
                whole |-> SubSeq(text, i, j)])))

\* itemTemplate.replace(/{index}/g, index.toString())
ReplaceIndex(itemTemplate, index) ==
    MapSeq(LAMBDA t : IF t = Ph("index") THEN <<Txt(ToString(index))>> ELSE <<t>>,
           itemTemplate)

\* The callback of loopData.map: the rendering of one entry (index from 0).
ItemOutput(loopTemplate, item, index, data) ==
    processComplexDataInLoop(ReplaceIndex(loopTemplate, index), item, data)

\* parts.join(sep)
Join(parts, sep) ==
    With(parts, LAMBDA v :
      Flatten([i \in 1..Len(v) |-> IF i = 1 THEN v[i] ELSE sep \o v[i]]))

LoopOutput(loopTemplate, loopName, data) ==
    With(OrElse(Get(data, loopName), Arr(<<>>)), LAMBDA loopData :
      IF loopData.ty = "arr" /\ Len(loopData.items) > 0
      THEN Join([i \in 1..Len(loopData.items) |->
                    ItemOutput(loopTemplate, loopData.items[i], i - 1, data)], <<Nl>>)
      ELSE <<>>)

\* The variant that also erases the opening markers it cannot pair.
processLoopsIterationErasingUnpaired(result, data) ==
    With(LoopMatch(result), LAMBDA match :
      With(StringReplace(result, match.whole,
                         LoopOutput(match.loopTemplate, match.loopName, data)),
           LAMBDA replaced :
             SelectSeq(replaced, LAMBDA t :
                 t.k # "ls" \/ \E j \in 1..Len(replaced) : replaced[j] = LoopEnd(t.a))))

\* One iteration of the while loop of processLoops.
processLoopsIteration(result, data) ==
    With(LoopMatch(result), LAMBDA match :
      StringReplace(result, match.whole,
                    LoopOutput(match.loopTemplate, match.loopName, data)))

(***************************************************************************)
(* Section Pruner.                                                         *)
(***************************************************************************)
SectionStarts(text) ==
    {i \in 1..Len(text) :
        /\ text[i].k = "so"
        /\ \E j \in (i + 1)..Len(text) : text[j] = SecClose(text[i].a)}

HasSectionMatch(text) == SectionStarts(text) # {}

SectionMatch(text) ==
    With(SectionStarts(text), LAMBDA S :
      With(CHOOSE x \in S : \A y \in S : x <= y, LAMBDA i :
        With(CHOOSE x \in (i + 1)..Len(text) :
                /\ text[x] = SecClose(text[i].a)
                /\ \A y \in (i + 1)..(x - 1) : text[y] # SecClose(text[i].a),
             LAMBDA j :
               [first |-> i, last |-> j, sectionName |-> text[i].a,
                sectionContent |-> Slice(text, i + 1, j - 1),
                fullSectionMatch |-> SubSeq(text, i, j)])))

\* Which word, in the order the code tests them, the lower-cased section
\* name includes; "general" when it includes none.
SectionKind(sectionName) ==
    CASE sectionName = "About Me"     -> "about me"
      [] sectionName = "Logo"         -> "logo"
      [] sectionName = "Services"     -> "services"
      [] sectionName = "Reviews"      -> "reviews"
      [] sectionName = "Buttons"      -> "buttons"
      [] sectionName = "Contact Info" -> "contact info"
      [] sectionName = "Socials"      -> "social"
      [] OTHER                        -> "general"

\* !v || v.trim() === '' : "yes", "no", or "throw" when v is truthy and has
\* no trim method (it is not a string).
BlankTest(v) ==
    With(v, LAMBDA x :
      IF ~Truthy(x) THEN "yes"
      ELSE IF x.ty # "str" THEN "throw"
      ELSE IF IsBlank(x.s) THEN "yes" ELSE "no")

\* data['socialMedia'] && data['socialMedia'][name]
SocialMediaGet(data, name) ==
    LET sm == Get(data, "socialMedia")
    IN  IF ~Truthy(sm) THEN sm
        ELSE IF sm.ty = "obj" THEN Get(sm.m, name) ELSE Undefined

\* field and id as the code lists them; stripped is field.replace('Link', '')
\* and lower is field.toLowerCase().replace('link', ''), each replacing the
\* first occurrence only.
socialMediaFields ==
    << [field |-> "instagramLink", id |-> "instagram", stripped |-> "instagram", lower |-> "instagram"],
       [field |-> "tikTokLink",    id |-> "tiktok",    stripped |-> "tikTok",    lower |-> "tiktok"],
       [field |-> "facebookLink",  id |-> "facebook",  stripped |-> "facebook",  lower |-> "facebook"],
       [field |-> "linkedInLink",  id |-> "linkedin",  stripped |-> "linkedIn",  lower |-> "edinlink"],
       [field |-> "dribbbleLink",  id |-> "dribbble",  stripped |-> "dribbble",  lower |-> "dribbble"],
       [field |-> "youtubeLink",   id |-> "youtube",   stripped |-> "youtube",   lower |-> "youtube"],
       [field |-> "slackLink",     id |-> "slack",     stripped |-> "slack",     lower |-> "slack"],
       [field |-> "vimeoLink",     id |-> "vimeo",     stripped |-> "vimeo",     lower |-> "vimeo"],
       [field |-> "emailLink",     id |-> "email",     stripped |-> "email",     lower |-> "email"],
       [field |-> "callLink",      id |-> "call",      stripped |-> "call",      lower |-> "call"],
       [field |-> "textLink",      id |-> "sms",       stripped |-> "text",      lower |-> "text"] >>

\* The value shouldRemoveSection reads for a social field.
SectionSocialValue(data, f) ==
    OrElse(OrElse(Get(data, f.field), SocialMediaGet(data, f.stripped)), Str(<<>>))

\* socialMediaFields.some(...) from field k on: "yes" when a field has a
\* non-blank value, "no" when none has, "throw" when the value reached is
\* truthy and not a string.
RECURSIVE SomeSocial(_, _)
SomeSocial(data, k) ==
    IF k > Len(socialMediaFields) THEN "no"
    ELSE With(SectionSocialValue(data, socialMediaFields[k]), LAMBDA value :
           IF ~Truthy(value) THEN SomeSocial(data, k + 1)
           ELSE IF value.ty # "str" THEN "throw"
           ELSE IF ~IsBlank(value.s) THEN "yes"
           ELSE SomeSocial(data, k + 1))

\* The general rule: a placeholder of the content, other than index, that
\* the data owns with a null, undefined, '' or [] value.
GeneralRemove(sectionContent, data) ==
    \E i \in 1..Len(sectionContent) :
        LET t == sectionContent[i]
        IN  /\ t.k = "ph"
            /\ t.a # "index"
            /\ hasOwnProperty(data, t.a)
            /\ LET value == data[t.a]
               IN  \/ value.ty \in {"null", "undef"}
                   \/ value.ty = "str" /\ value.s = <<>>
                   \/ value.ty = "arr" /\ Len(value.items) = 0

MissingOrEmptyArray(v) == ~Truthy(v) \/ (v.ty = "arr" /\ Len(v.items) = 0)

Decision(b) == IF b THEN "remove" ELSE "keep"

\* "remove", "keep" or "throw".
shouldRemoveSection(sectionName, sectionContent, data) ==
    LET FromBlank(r) == IF r = "throw" THEN "throw" ELSE Decision(r = "yes")
    IN  With(SectionKind(sectionName), LAMBDA kind :
          CASE kind = "about me"     -> FromBlank(BlankTest(Get(data, "aboutMeText")))
            [] kind = "logo"         -> Decision(~Truthy(Get(data, "businessLogo")))
            [] kind = "services"     -> FromBlank(BlankTest(Get(data, "service")))
            [] kind = "reviews"      -> Decision(MissingOrEmptyArray(Get(data, "reviews")))
            [] kind = "buttons"      -> Decision(MissingOrEmptyArray(Get(data, "customButtons")))
            [] kind = "contact info" -> "keep"
            [] kind = "social"       ->
                  With(SomeSocial(data, 1), LAMBDA r :
                    IF r = "throw" THEN "throw" ELSE Decision(r = "no"))
            [] OTHER                 -> Decision(GeneralRemove(sectionContent, data)))

\* One iteration of the while loop of removeEmptySections, for a decision
\* that is not "throw".
removeEmptySectionsIteration(result, data) ==
    With(SectionMatch(result), LAMBDA match :
      IF shouldRemoveSection(match.sectionName, match.sectionContent, data) = "remove"
      THEN StringReplace(result, match.fullSectionMatch, <<>>)
      ELSE StringReplace(result, match.fullSectionMatch, match.sectionContent))

(***************************************************************************)
(* Layout Engine.  The block map is a JavaScript object: its own entries,  *)
(* in insertion order, are a sequence of [name, fn, content]; fn says that *)
(* the value is the function Object (reached through the prototype as      *)
(* blocks['constructor']) instead of a string.                             *)
(***************************************************************************)
ObjectSource == Txt("function Object() { [native code] }")

\* The names every object inherits a truthy value for, among the
\* identifiers of the model.
InheritedNames == {"constructor"}

IsVal(x) == DOMAIN x = {"ty", "s", "n", "items", "m"}

\* The property key an array entry or a swap end denotes: String(x).
KeyOf(x) ==
    IF ~IsVal(x) THEN "[object Object]"
    ELSE IF x.ty = "str"
         THEN IF Len(x.s) = 1 /\ x.s[1].k = "txt" THEN x.s[1].a ELSE "(text)"
    ELSE IF x.ty = "undef" THEN "undefined"
    ELSE IF x.ty = "null" THEN "null"
    ELSE "(other)"

OwnIndex(blocks, name) ==
    With(blocks, LAMBDA v :
      IF \E i \in 1..Len(v) : v[i].name = name
      THEN CHOOSE i \in 1..Len(v) : v[i].name = name
      ELSE 0)

\* blocks[name] = value
BlockSet(blocks, name, value) ==
    With(<<blocks, value>>, LAMBDA v :
      With(OwnIndex(v[1], name), LAMBDA i :
        With([name |-> name, fn |-> v[2].fn, content |-> v[2].content], LAMBDA e :
          IF i = 0 THEN Append(v[1], e) ELSE [v[1] EXCEPT ![i] = e])))

\* blocks[name]: [def, fn, content]; def is FALSE for undefined.
BlockGet(blocks, name) ==
    With(blocks, LAMBDA v :
      With(OwnIndex(v, name), LAMBDA i :
        IF i # 0 THEN [def |-> TRUE, fn |-> v[i].fn, content |-> v[i].content]
        ELSE IF name \in InheritedNames THEN [def |-> TRUE, fn |-> TRUE, content |-> <<>>]
        ELSE [def |-> FALSE, fn |-> FALSE, content |-> <<>>]))

\* if (blocks[name]): a function is truthy, a string is unless it is empty.
BlockTruthy(blocks, name) ==
    With(BlockGet(blocks, name), LAMBDA v : v.def /\ (v.fn \/ v.content # <<>>))

\* blockRegex.exec from position from: the leftmost <!-- BLOCK:n --> at or
\* after from that has an <!-- ENDBLOCK:n --> after it.
BlockStarts(text, from) ==
    {i \in from..Len(text) :
        /\ text[i].k = "bo"
        /\ \E j \in (i + 1)..Len(text) : text[j] = BlockClose(text[i].a)}

FirstBlock(text, from) ==
    With(BlockStarts(text, from), LAMBDA S :
      With(CHOOSE x \in S : \A y \in S : x <= y, LAMBDA i :
        [first |-> i,
         last  |-> CHOOSE x \in (i + 1)..Len(text) :
                      /\ text[x] = BlockClose(text[i].a)
                      /\ \A y \in (i + 1)..(x - 1) : text[y] # BlockClose(text[i].a)]))

\* The while loop that extracts the blocks.
RECURSIVE ExtractBlocks(_, _, _)
ExtractBlocks(text, from, blocks) ==
    IF BlockStarts(text, from) = {} THEN blocks
    ELSE With(FirstBlock(text, from), LAMBDA b :
           With(BlockSet(blocks, text[b.first].a,
                         [fn |-> FALSE, content |-> Slice(text, b.first + 1, b.last - 1)]),
                LAMBDA extended : ExtractBlocks(text, b.last + 1, extended)))

\* if (blocks[b1] && blocks[b2]) { temp = blocks[b1]; blocks[b1] = blocks[b2]; blocks[b2] = temp }
SwapBlocks(blocks, block1, block2) ==
    With(blocks, LAMBDA v :
      IF BlockTruthy(v, block1) /\ BlockTruthy(v, block2)
      THEN With(BlockGet(v, block1), LAMBDA temp :
             BlockSet(BlockSet(v, block1, BlockGet(v, block2)), block2, temp))
      ELSE v)

\* The swap directives of the text, in text order.
RECURSIVE InlineSwapsFrom(_, _, _)
InlineSwapsFrom(text, k, blocks) ==
    IF k > Len(text) THEN blocks
    ELSE IF text[k].k = "swap"
         THEN With(SwapBlocks(blocks, text[k].a, text[k].b),
                   LAMBDA swapped : InlineSwapsFrom(text, k + 1, swapped))
    ELSE InlineSwapsFrom(text, k + 1, blocks)

ApplyInlineSwaps(text, blocks) ==
    With(<<text, blocks>>, LAMBDA v : InlineSwapsFrom(v[1], 1, v[2]))

RemoveSwapDirectives(text) == SelectSeq(text, LAMBDA t : t.k # "swap")

\* swap.from and swap.to of an entry of data.swaps.
SwapEnd(swap, end) ==
    IF IsVal(swap) THEN "undefined" ELSE KeyOf(Get(swap, end))

RECURSIVE DataSwapsFrom(_, _, _)
DataSwapsFrom(swaps, k, blocks) ==
    IF k > Len(swaps) THEN blocks
    ELSE With(SwapBlocks(blocks, SwapEnd(swaps[k], "from"), SwapEnd(swaps[k], "to")),
              LAMBDA swapped : DataSwapsFrom(swaps, k + 1, swapped))

ApplyDataSwaps(swaps, blocks) ==
    With(<<swaps, blocks>>, LAMBDA v : DataSwapsFrom(v[1], 1, v[2]))

\* reorderedContent += blocks[blockName], for the names of order in turn.
ReorderedContent(order, blocks) ==
    With(<<order, blocks>>, LAMBDA a :
      Flatten([k \in 1..Len(a[1]) |->
                 With(BlockGet(a[2], KeyOf(a[1][k])), LAMBDA v :
                   IF v.def /\ (v.fn \/ v.content # <<>>)
                   THEN IF v.fn THEN <<ObjectSource>> ELSE v.content
                   ELSE <<>>)]))

\* The first <!-- REORDER --> ... <!-- ENDREORDER --> span of text, if any.
ReorderStarts(text) ==
    {i \in 1..Len(text) :
        /\ text[i] = ReorderOpen
        /\ \E j \in (i + 1)..Len(text) : text[j] = ReorderClose}

\* replace(reorderContainerRegex, () => reorderedContent): every container
\* span, left to right; the replacement comes from a function and is literal.
RECURSIVE ReplaceContainersFrom(_, _, _)
ReplaceContainersFrom(text, from, reorderedContent) ==
    With({i \in ReorderStarts(text) : i >= from}, LAMBDA S :
      IF S = {} THEN Slice(text, from, Len(text))
      ELSE With(CHOOSE x \in S : \A y \in S : x <= y, LAMBDA i :
             With(CHOOSE x \in (i + 1)..Len(text) :
                     /\ text[x] = ReorderClose
                     /\ \A y \in (i + 1)..(x - 1) : text[y] # ReorderClose,
                  LAMBDA j :
                    Slice(text, from, i - 1) \o reorderedContent
                    \o ReplaceContainersFrom(text, j + 1, reorderedContent))))

ReplaceContainers(text, reorderedContent) ==
    With(<<text, reorderedContent>>, LAMBDA v : ReplaceContainersFrom(v[1], 1, v[2]))

\* The spans of block name in text at or after from.
NamedBlockStarts(text, from, name) ==
    {i \in from..Len(text) :
        /\ text[i] = BlockOpen(name)
        /\ \E j \in (i + 1)..Len(text) : text[j] = BlockClose(name)}

\* text.replace(blockMarkerRegex, value), the regular expression being
\* global: every span of the block, left to right.  A string value is a
\* replacement string, whose dollar patterns are expanded against the whole
\* text; a function value is called as a replacer, and Object(match)
\* converts back to the matched text.
RECURSIVE ReplaceBlockSpans(_, _, _, _)
ReplaceBlockSpans(text, from, name, value) ==
    With(NamedBlockStarts(text, from, name), LAMBDA S :
      IF S = {} THEN Slice(text, from, Len(text))
      ELSE With(CHOOSE x \in S : \A y \in S : x <= y, LAMBDA i :
             With(CHOOSE x \in (i + 1)..Len(text) :
                     /\ text[x] = BlockClose(name)
                     /\ \A y \in (i + 1)..(x - 1) : text[y] # BlockClose(name),
                  LAMBDA j :
                    Slice(text, from, i - 1)
                    \o (IF value.fn THEN SubSeq(text, i, j)
                        ELSE GetSubstitution(value.content, SubSeq(text, i, j),
                                 Slice(text, 1, i - 1), Slice(text, j + 1, Len(text))))
                    \o ReplaceBlockSpans(text, j + 1, name, value))))

\* for (const [blockName, blockContent] of Object.entries(blocks)) ...
RECURSIVE SpliceBlocks(_, _, _)
SpliceBlocks(text, blocks, k) ==
    IF k > Len(blocks) THEN text
    ELSE With(<<text, blocks[k]>>, LAMBDA v :
           With(ReplaceBlockSpans(v[1], 1, v[2].name, v[2]),
                LAMBDA spliced : SpliceBlocks(spliced, blocks, k + 1)))

\* The block map after extraction and all the swaps.
LayoutBlocks(template, data) ==
    With(ApplyInlineSwaps(template, ExtractBlocks(template, 1, <<>>)), LAMBDA inline :
      With(Get(data, "swaps"), LAMBDA swaps :
        IF Truthy(swaps) /\ swaps.ty = "arr"
        THEN ApplyDataSwaps(swaps.items, inline)
        ELSE inline))

processLayoutReordering(template, data) ==
    With(<<LayoutBlocks(template, data), RemoveSwapDirectives(template),
           Get(data, "layoutOrder")>>,
         LAMBDA v :
           With(IF Truthy(v[3]) /\ v[3].ty = "arr"
                THEN ReplaceContainers(v[2], ReorderedContent(v[3].items, v[1]))
                ELSE v[2],
                LAMBDA reordered : SpliceBlocks(reordered, v[1], 1)))

(***************************************************************************)
(* Conditional Element Pruner.                                             *)
(***************************************************************************)
\* text.replace(pattern, '') for a global pattern  start .*? end : every
\* span from a start tag to the first end tag after it, left to right.
\* Without the s flag the dot matches no newline, and a start tag with a
\* newline before its first end tag begins no match.
RECURSIVE RemoveSpansFrom(_, _, _, _, _)
RemoveSpansFrom(text, from, IsStart(_), IsEnd(_), dotAll) ==
    LET Ends(i) == {j \in (i + 1)..Len(text) : IsEnd(text[j])}
        FirstEnd(i) == CHOOSE j \in Ends(i) : \A x \in Ends(i) : j <= x
    IN  With({i \in from..Len(text) :
                /\ IsStart(text[i])
                /\ Ends(i) # {}
                /\ dotAll \/ \A x \in (i + 1)..(FirstEnd(i) - 1) : text[x] # Nl},
             LAMBDA S :
               IF S = {} THEN Slice(text, from, Len(text))
               ELSE With(CHOOSE x \in S : \A y \in S : x <= y, LAMBDA i :
                      With(FirstEnd(i), LAMBDA j :
                        Slice(text, from, i - 1)
                        \o RemoveSpansFrom(text, j + 1, IsStart, IsEnd, dotAll))))

RemoveSpans(text, IsStart(_), IsEnd(_), dotAll) ==
    With(text, LAMBDA v : RemoveSpansFrom(v, 1, IsStart, IsEnd, dotAll))

\* The value processConditionalElements reads for a social field.
ElementSocialValue(data, f) ==
    OrElse(OrElse(OrElse(Get(data, f.field), SocialMediaGet(data, f.stripped)),
                  SocialMediaGet(data, f.lower)),
           Str(<<>>))

\* A tag written in parts (TagStart, the value of its href, TagEnd) is
\* closed by its TagEnd before any closing tag follows.
RemoveSocialElements(text, id) ==
    With("id:" \o id, LAMBDA attr :
      RemoveSpans(RemoveSpans(text,
                      LAMBDA t : t.k \in {"open", "tagstart"} /\ t.a = "a" /\ t.b = attr,
                      LAMBDA t : t = Close("a"), TRUE),
                  LAMBDA t : t.k \in {"open", "tagstart"} /\ t.b = attr,
                  LAMBDA t : t.k = "close", TRUE))

\* socialMediaFields.forEach from field k on: [threw, text].
RECURSIVE PruneSocialElements(_, _, _)
PruneSocialElements(text, data, k) ==
    IF k > Len(socialMediaFields) THEN [threw |-> FALSE, text |-> text]
    ELSE With(BlankTest(ElementSocialValue(data, socialMediaFields[k])), LAMBDA blank :
           IF blank = "throw" THEN [threw |-> TRUE, text |-> text]
           ELSE With(IF blank = "yes"
                     THEN RemoveSocialElements(text, socialMediaFields[k].id)
                     ELSE text,
                     LAMBDA pruned : PruneSocialElements(pruned, data, k + 1)))

\* The variant that removes paragraphs whatever their class or id.
RemoveParagraphsOfAnyKind(text, attr) ==
    RemoveSpans(text,
                LAMBDA t : t.k = "open" /\ t.a = "p",
                LAMBDA t : t = Close("p"), FALSE)

RemoveParagraphs(text, attr) ==
    RemoveSpans(text,
                LAMBDA t : t.k = "open" /\ t.a = "p" /\ t.b = attr,
                LAMBDA t : t = Close("p"), FALSE)

\* !data['address'] || (typeof data['address'] === 'object' && !data['address'].streetAddress1)
AddressMissing(data) ==
    LET v == Get(data, "address")
    IN  \/ ~Truthy(v)
        \/ v.ty = "arr"
        \/ v.ty = "obj" /\ ~Truthy(Get(v.m, "streetAddress1"))

\* [threw, text]: threw when a value that is truthy and not a string is
\* asked for its trim method.
processConditionalElements(template, data) ==
    LET phone   == BlankTest(Get(data, "phone"))
        website == BlankTest(Get(data, "website"))
        title   == BlankTest(Get(data, "title"))
    IN  With(PruneSocialElements(template, data, 1), LAMBDA social :
          IF social.threw \/ "throw" \in {phone, website, title}
          THEN [threw |-> TRUE, text |-> template]
          ELSE
            With(IF phone = "yes" THEN RemoveParagraphs(social.text, "class:phone")
                 ELSE social.text, LAMBDA r1 :
              With(IF website = "yes" THEN RemoveParagraphs(r1, "class:website")
                   ELSE r1, LAMBDA r2 :
                With(IF AddressMissing(data) THEN RemoveParagraphs(r2, "class:address")
                     ELSE r2, LAMBDA r3 :
                  [threw |-> FALSE,
                   text |-> IF title = "yes" THEN RemoveParagraphs(r3, "id:title")
                            ELSE r3]))))

(***************************************************************************)
(* Whitespace cleanup.                                                     *)
(***************************************************************************)
\* replace(/\n\s*\n\s*\n/g, '\n\n'): in a run of whitespace, the stretch
\* from the first newline to the last, when it holds three newlines or
\* more, becomes two newlines.
RECURSIVE CollapseFrom(_, _)
CollapseFrom(text, from) ==
    IF from > Len(text) THEN <<>>
    ELSE IF text[from] # Nl THEN <<text[from]>> \o CollapseFrom(text, from + 1)
    ELSE With({i \in from..Len(text) : text[i].k # "ws"}, LAMBDA NonWs :
           With(IF NonWs = {} THEN Len(text)
                ELSE (CHOOSE i \in NonWs : \A j \in NonWs : i <= j) - 1, LAMBDA e :
             With({i \in from..e : text[i] = Nl}, LAMBDA Nls :
               IF Cardinality(Nls) >= 3
               THEN <<Nl, Nl>>
                    \o CollapseFrom(text, (CHOOSE i \in Nls : \A j \in Nls : j <= i) + 1)
               ELSE Slice(text, from, e) \o CollapseFrom(text, e + 1))))

CollapseBlankLines(text) == With(text, LAMBDA v : CollapseFrom(v, 1))

\* replace(/\s+$/, '')
TrimEnd(text) ==
    With(text, LAMBDA v :
      With({i \in 1..Len(v) : v[i].k # "ws"}, LAMBDA NonWs :
        IF NonWs = {} THEN <<>>
        ELSE SubSeq(v, 1, CHOOSE i \in NonWs : \A j \in NonWs : j <= i)))

cleanupTemplate(template) == TrimEnd(CollapseBlankLines(template))

(***************************************************************************)
(* export.  The markup handed to export holds its angle brackets in tags   *)
(* and comment markers only, and its tags are written in lower case.       *)
(***************************************************************************)
getSupportedExportFormats == <<"html", "markdown", "text", "json", "ast">>

IsComment(t) == t.k \in {"so", "sc", "bo", "bc", "ro", "rc"}

\* text.trim()
Trim(text) ==
    With(text, LAMBDA v :
      With({i \in 1..Len(v) : v[i].k # "ws"}, LAMBDA NonWs :
        IF NonWs = {} THEN <<>>
        ELSE SubSeq(v, CHOOSE i \in NonWs : \A j \in NonWs : i <= j,
                       CHOOSE i \in NonWs : \A j \in NonWs : j <= i)))

\* replace(/\s+/g, ' ')
RECURSIVE NormalizeFrom(_, _)
NormalizeFrom(text, from) ==
    IF from > Len(text) THEN <<>>
    ELSE IF text[from].k # "ws" THEN <<text[from]>> \o NormalizeFrom(text, from + 1)
    ELSE IF from > 1 /\ text[from - 1].k = "ws" THEN NormalizeFrom(text, from + 1)
    ELSE <<Sp>> \o NormalizeFrom(text, from + 1)

htmlToText(html) ==
    With(SelectSeq(html, LAMBDA t : ~(t.k \in {"open", "close"} \/ IsComment(t))),
         LAMBDA stripped : Trim(NormalizeFrom(stripped, 1)))

\* The tag names that begin with the letters a conversion rule or a
\* backtracking tag-name group looks for, longest first: <br> begins with
\* b, <pre> with p, <img> with i, <ul> with u.
TagPrefixes(tag) ==
    CASE tag = "br"  -> <<"br", "b">>
      [] tag = "pre" -> <<"pre", "pr", "p">>
      [] tag = "img" -> <<"img", "im", "i">>
      [] tag = "ul"  -> <<"ul", "u">>
      [] tag = "h1"  -> <<"h1", "h">>
      [] OTHER       -> <<tag>>

StartsWith(tag, prefix) ==
    \E k \in 1..Len(TagPrefixes(tag)) : TagPrefixes(tag)[k] = prefix

\* The attributes written in a tag: a mapping from names to values.
parseAttributes(attrString) ==
    CASE attrString = "href:u"      -> [href |-> "u"]
      [] attrString = "class:phone" -> [class |-> "phone"]
      [] attrString = "id:title"    -> [id |-> "title"]
      [] attrString = "src:u alt:d" -> [src |-> "u", alt |-> "d"]
      [] OTHER                      -> <<>>

\* replace(/<tag[^>]*>(.*?)<\/tag>/gi, before $1 after): the opening tag
\* is any tag that begins with the rule's letters, the content runs to the
\* first closing tag and holds no newline.
RECURSIVE ReplaceElementsFrom(_, _, _, _, _)
ReplaceElementsFrom(text, from, tag, before, after) ==
    IF from > Len(text) THEN <<>>
    ELSE IF ~(text[from].k = "open" /\ StartsWith(text[from].a, tag))
         THEN <<text[from]>> \o ReplaceElementsFrom(text, from + 1, tag, before, after)
    ELSE With({j \in (from + 1)..Len(text) :
                  /\ text[j] = Close(tag)
                  /\ \A p \in (from + 1)..(j - 1) : text[p] # Nl /\ text[p] # Close(tag)},
              LAMBDA Ends :
           IF Ends = {}
           THEN <<text[from]>> \o ReplaceElementsFrom(text, from + 1, tag, before, after)
           ELSE With(CHOOSE j \in Ends : TRUE, LAMBDA j :
                  before \o Slice(text, from + 1, j - 1) \o after
                  \o ReplaceElementsFrom(text, j + 1, tag, before, after)))

ReplaceElements(text, tag, before, after) ==
    With(text, LAMBDA v : ReplaceElementsFrom(v, 1, tag, before, after))

\* replace(/<ul[^>]*>/gi, '') and replace(/<\/ul>/gi, '\n')
ReplaceLists(text) ==
    MapSeq(LAMBDA t : IF t.k = "open" /\ StartsWith(t.a, "ul") THEN <<>>
                      ELSE IF t = Close("ul") THEN <<Nl>>
                      ELSE <<t>>, text)

\* replace(/<a[^>]+href=["']([^"']*)["'][^>]*>(.*?)<\/a>/gi, '[$2]($1)')
RECURSIVE ReplaceLinksFrom(_, _)
ReplaceLinksFrom(text, from) ==
    IF from > Len(text) THEN <<>>
    ELSE IF ~(/\ text[from].k = "open"
              /\ StartsWith(text[from].a, "a")
              /\ "href" \in DOMAIN parseAttributes(text[from].b))
         THEN <<text[from]>> \o ReplaceLinksFrom(text, from + 1)
    ELSE With({j \in (from + 1)..Len(text) :
                  /\ text[j] = Close("a")
                  /\ \A p \in (from + 1)..(j - 1) : text[p] # Nl /\ text[p] # Close("a")},
              LAMBDA Ends :
           IF Ends = {}
           THEN <<text[from]>> \o ReplaceLinksFrom(text, from + 1)
           ELSE With(CHOOSE j \in Ends : TRUE, LAMBDA j :
                  <<Txt("[")>> \o Slice(text, from + 1, j - 1)
                  \o <<Txt("]("), Txt(parseAttributes(text[from].b).href), Txt(")")>>
                  \o ReplaceLinksFrom(text, j + 1)))

\* replace(/<img[^>]+src=["']([^"']*)["'][^>]*alt=["']([^"']*)["'][^>]*\/?>/gi, '![$2]($1)')
ReplaceImages(text) ==
    MapSeq(LAMBDA t :
              IF /\ t.k = "open"
                 /\ StartsWith(t.a, "img")
                 /\ {"src", "alt"} \subseteq DOMAIN parseAttributes(t.b)
              THEN <<Txt("!["), Txt(parseAttributes(t.b).alt), Txt("]("),
                     Txt(parseAttributes(t.b).src), Txt(")")>>
              ELSE <<t>>, text)

htmlToMarkdown(html) ==
    With(ReplaceElements(html, "h1", <<Txt("#"), Sp>>, <<>>), LAMBDA h1 :
    With(ReplaceElements(h1, "h2", <<Txt("##"), Sp>>, <<>>), LAMBDA h2 :
    With(ReplaceElements(h2, "h3", <<Txt("###"), Sp>>, <<>>), LAMBDA h3 :
    With(ReplaceElements(h3, "p", <<>>, <<Nl, Nl>>), LAMBDA p :
    With(ReplaceLists(p), LAMBDA ul :
    With(ReplaceElements(ul, "li", <<Txt("-"), Sp>>, <<Nl>>), LAMBDA li :
    With(ReplaceElements(li, "strong", <<Txt("**")>>, <<Txt("**")>>), LAMBDA strong :
    With(ReplaceElements(strong, "b", <<Txt("**")>>, <<Txt("**")>>), LAMBDA b :
    With(ReplaceElements(b, "em", <<Txt("*")>>, <<Txt("*")>>), LAMBDA em :
    With(ReplaceElements(em, "i", <<Txt("*")>>, <<Txt("*")>>), LAMBDA i :
    With(ReplaceLinksFrom(i, 1), LAMBDA a :
         CollapseBlankLines(ReplaceImages(a)))))))))))))

\* The nodes of the tree.
TextNode(content) == [type |-> "text", content |-> content]

ElementNode(tagName, attributes, children) ==
    [type |-> "element", tagName |-> tagName, attributes |-> attributes,
     children |-> children]

\* The variant that makes a node of the text as it stands, blank or not.
TextBetweenUntrimmed(html, lastIndex, index) ==
    IF index > lastIndex
    THEN <<TextNode(Slice(html, lastIndex + 1, index))>>
    ELSE <<>>

\* The text between two matches, as a list of at most one node.
TextBetween(html, lastIndex, index) ==
    IF index > lastIndex /\ Trim(Slice(html, lastIndex + 1, index)) # <<>>
    THEN <<TextNode(Trim(Slice(html, lastIndex + 1, index)))>>
    ELSE <<>>

\* The tag name the first alternative of elementRegex settles on at an
\* opening tag: the longest beginning of the tag's name that has a closing
\* tag further on; "" when there is none and the second alternative takes
\* the tag as self-closing.
PairedName(html, i) ==
    With(TagPrefixes(html[i].a), LAMBDA names :
      With({k \in 1..Len(names) : \E j \in (i + 1)..Len(html) : html[j] = Close(names[k])},
           LAMBDA Paired :
        IF Paired = {} THEN ""
        ELSE names[CHOOSE k \in Paired : \A m \in Paired : k <= m]))

RECURSIVE simpleHtmlParse(_)
RECURSIVE ParseFrom(_, _, _)
\* The while loop of simpleHtmlParse, with elementRegex.lastIndex and
\* lastIndex both at lastIndex and the scan at token i.
ParseFrom(html, i, lastIndex) ==
    IF i > Len(html) THEN TextBetween(html, lastIndex, Len(html))
    ELSE IF html[i].k # "open" THEN ParseFrom(html, i + 1, lastIndex)
    ELSE With(PairedName(html, i), LAMBDA elementName :
           IF elementName # ""
           THEN With(CHOOSE j \in (i + 1)..Len(html) :
                        /\ html[j] = Close(elementName)
                        /\ \A p \in (i + 1)..(j - 1) : html[p] # Close(elementName),
                     LAMBDA j :
                  With(Slice(html, i + 1, j - 1), LAMBDA innerContent :
                    TextBetween(html, lastIndex, i - 1)
                    \o <<ElementNode(elementName, parseAttributes(html[i].b),
                            IF \E p \in 1..Len(innerContent) :
                                  innerContent[p].k \in {"open", "close"}
                            THEN simpleHtmlParse(innerContent)
                            ELSE <<TextNode(innerContent)>>)>>
                    \o ParseFrom(html, j + 1, j)))
           ELSE TextBetween(html, lastIndex, i - 1)
                \o <<ElementNode(html[i].a, parseAttributes(html[i].b), <<>>)>>
                \o ParseFrom(html, i + 1, i))

simpleHtmlParse(html) == With(html, LAMBDA v : ParseFrom(v, 1, 0))

\* new Date().toISOString() at the time of the call.
Timestamps == {"t1", "t2"}

parseHtmlToAst(html, timestamp) ==
    [type |-> "ast",
     nodes |-> simpleHtmlParse(SelectSeq(html, LAMBDA t : ~IsComment(t))),
     timestamp |-> timestamp]

htmlToStructuredData(html, timestamp) == parseHtmlToAst(html, timestamp)

\* What export returns for a format it handles.
ExportResult(html, fmt, timestamp) ==
    CASE fmt = "html"     -> html
      [] fmt = "markdown" -> htmlToMarkdown(html)
      [] fmt = "text"     -> htmlToText(html)
      [] fmt \in {"json", "ast"} -> htmlToStructuredData(html, timestamp)

\* The variant whose error does not say which format was asked for.
UnsupportedFormatUnnamed(fmt) == <<Txt("Unsupported export format")>>

\* The message of the error export throws.
UnsupportedFormat(fmt) == <<Txt("Unsupported export format: "), Txt(fmt)>>

maxIterations == 5

\* Bounds of the model.
MaxBody == 2        \* tokens in the body of a template
MaxEntries == 2     \* entries of an array of the data
MaxTextLen == 16    \* tokens a text may grow to before the engine gives up

(***************************************************************************)
(* process as a function of its arguments and the engine's options: what   *)
(* one call that runs alone comes to.  The outcome is [status, text]:      *)
(* status "done" with the text returned, "threw" when a TypeError leaves   *)
(* the call, "overflow" when the text outgrows MaxTextLen, "diverges" when *)
(* a while loop comes back to a text it has already had.                   *)
(***************************************************************************)
Outcome(status, text) == [status |-> status, text |-> text]

\* The next stage on the text of an outcome, unless the call has ended.
Then(r, F(_)) == With(r, LAMBDA v : IF v.status = "done" THEN F(v.text) ELSE v)

\* The variant with an if in the place of the while: one replacement.
LoopsOnce(result, data, seen) ==
    IF ~HasLoopMatch(result) THEN Outcome("done", result)
    ELSE With(processLoopsIteration(result, data), LAMBDA next :
           IF Len(next) > MaxTextLen THEN Outcome("overflow", result)
           ELSE Outcome("done", next))

RECURSIVE LoopsFrom(_, _, _)
LoopsFrom(result, data, seen) ==
    IF ~HasLoopMatch(result) THEN Outcome("done", result)
    ELSE IF result \in seen THEN Outcome("diverges", result)
    ELSE With(processLoopsIteration(result, data), LAMBDA next :
           IF Len(next) > MaxTextLen THEN Outcome("overflow", result)
           ELSE LoopsFrom(next, data, seen \cup {result}))

processLoops(template, data) == With(template, LAMBDA v : LoopsFrom(v, data, {}))

RECURSIVE NestedFrom(_, _, _)
NestedFrom(currentResult, data, iteration) ==
    With(currentResult, LAMBDA result :
      Then(processLoops(result, data), LAMBDA next :
        IF next # result /\ iteration + 1 < maxIterations
        THEN NestedFrom(next, data, iteration + 1)
        ELSE Outcome("done", result)))

processNestedLoops(template, data) == NestedFrom(template, data, 0)

processAdvancedStructures(template, data, opts) ==
    Then(IF opts.processLoops THEN processNestedLoops(template, data)
         ELSE Outcome("done", template),
         LAMBDA result :
           With(processConditionalElements(result, data), LAMBDA r :
             IF r.threw THEN Outcome("threw", result) ELSE Outcome("done", r.text)))

RECURSIVE SectionsFrom(_, _, _)
SectionsFrom(result, data, seen) ==
    IF ~HasSectionMatch(result) THEN Outcome("done", result)
    ELSE IF result \in seen THEN Outcome("diverges", result)
    ELSE With(SectionMatch(result), LAMBDA match :
           IF shouldRemoveSection(match.sectionName, match.sectionContent, data) = "throw"
           THEN Outcome("threw", result)
           ELSE With(removeEmptySectionsIteration(result, data), LAMBDA next :
                  IF Len(next) > MaxTextLen THEN Outcome("overflow", result)
                  ELSE SectionsFrom(next, data, seen \cup {result})))

removeEmptySections(template, data) == With(template, LAMBDA v : SectionsFrom(v, data, {}))

process(template, data, opts) ==
    Then(Then(Then(Then(Then(
        IF opts.processLoops THEN processLoops(template, data)
        ELSE Outcome("done", template),
        LAMBDA t1 : Outcome("done", IF opts.processPlaceholders
                                    THEN replacePlaceholders(t1, data) ELSE t1)),
        LAMBDA t2 : processAdvancedStructures(t2, data, opts)),
        LAMBDA t3 : Outcome("done", processLayoutReordering(t3, data))),
        LAMBDA t4 : IF opts.removeEmptySections THEN removeEmptySections(t4, data)
                    ELSE Outcome("done", t4)),
        LAMBDA t5 : Outcome("done", cleanupTemplate(t5)))

(***************************************************************************)
(* The state of one call of process on one engine.                         *)
(*   template, data  the arguments                                         *)
(*   options         the engine's options (default delimiters)             *)
(*   pc              the stage the call is at                              *)
(*   text            processedTemplate, or the result variable of the pass *)
(*                   that is running                                       *)
(*   result          the variable result of processNestedLoops             *)
(*   iteration       the variable iteration of processNestedLoops          *)
(*   entry           the array entry under consideration when a resolver    *)
(*                   is run on its own (0 otherwise)                       *)
(*   lastIndex       the lastIndex of the global regular expression of the *)
(*                   while loop that is running: 0 before exec, the end of *)
(*                   the match after it                                    *)
(*   format          the format argument of export ("" in a call of        *)
(*                   process)                                              *)
(*   waiting         the arguments and local variables of a second call of *)
(*                   process on the same engine that is not running at     *)
(*                   the moment (pc "none" when there is no second call)   *)
(***************************************************************************)
VARIABLES template, data, options, pc, text, result, iteration, entry, lastIndex,
          format, waiting

vars == <<template, data, options, pc, text, result, iteration, entry, lastIndex,
          format, waiting>>

DefaultOptions ==
    [removeEmptySections |-> TRUE, processLoops |-> TRUE, processPlaceholders |-> TRUE]

\* All sequences over S of length at most n.
RECURSIVE SeqsUpTo(_, _)
SeqsUpTo(S, n) ==
    IF n = 0 THEN {<<>>}
    ELSE LET shorter == SeqsUpTo(S, n - 1)
         IN  shorter \cup {Append(q, x) : q \in {r \in shorter : Len(r) = n - 1}, x \in S}

\* The variant that runs every pass whatever the options.
AfterWhateverTheOptions(stage, opts) ==
    CASE stage = "start"        -> "loops"
      [] stage = "loops"        -> "placeholders"
      [] stage = "placeholders" -> "nested"
      [] stage = "nested"       -> "conditional"
      [] stage = "conditional"  -> "layout"
      [] stage = "layout"       -> "sections"
      [] stage = "sections"     -> "cleanup"
      [] OTHER                  -> "done"

\* The variant that prunes the sections before the layout pass.
AfterSectionsBeforeLayout(stage, opts) ==
    CASE stage = "start" ->
            IF opts.processLoops THEN "loops"
            ELSE IF opts.processPlaceholders THEN "placeholders" ELSE "conditional"
      [] stage = "loops" ->
            IF opts.processPlaceholders THEN "placeholders" ELSE "nested"
      [] stage = "placeholders" ->
            IF opts.processLoops THEN "nested" ELSE "conditional"
      [] stage = "nested" -> "conditional"
      [] stage = "conditional" ->
            IF opts.removeEmptySections THEN "sections" ELSE "layout"
      [] stage = "sections" -> "layout"
      [] stage = "layout" -> "cleanup"
      [] OTHER -> "done"

\* The stage that follows a stage of process, given the options.
RECURSIVE After(_, _)
After(stage, opts) ==
    CASE stage = "start" ->
            IF opts.processLoops THEN "loops" ELSE After("loops", opts)
      [] stage = "loops" ->
            IF opts.processPlaceholders THEN "placeholders" ELSE After("placeholders", opts)
      [] stage = "placeholders" ->
            IF opts.processLoops THEN "nested" ELSE "conditional"
      [] stage = "nested" -> "conditional"
      [] stage = "conditional" -> "layout"
      [] stage = "layout" ->
            IF opts.removeEmptySections THEN "sections" ELSE "cleanup"
      [] stage = "sections" -> "cleanup"
      [] OTHER -> "done"

NoCall == [pc |-> "none"]

Unused == /\ result = <<>>
          /\ iteration = 0
          /\ entry = 0
          /\ lastIndex = 0
          /\ format = ""
          /\ waiting = NoCall

(***************************************************************************)
(* process, stage by stage.  The while loops of processLoops and           *)
(* removeEmptySections advance one iteration per step.                     *)
(***************************************************************************)
Begin ==
    /\ pc = "start"
    /\ pc' = After("start", options)
    /\ UNCHANGED <<format, waiting, template, data, options, text, result, iteration, entry, lastIndex>>

\* loopRegex.exec finds a match, in processLoops called from process or
\* from processNestedLoops.
LoopExec ==
    /\ pc \in {"loops", "nestedLoops"}
    /\ lastIndex = 0
    /\ HasLoopMatch(text)
    /\ lastIndex' = LoopMatch(text).last
    /\ UNCHANGED <<format, waiting, template, data, options, pc, text, result, iteration, entry>>

\* The body of the while loop: the match is replaced and lastIndex reset.
LoopIterate ==
    /\ pc \in {"loops", "nestedLoops"}
    /\ lastIndex # 0
    /\ Len(processLoopsIteration(text, data)) <= MaxTextLen
    /\ text' = processLoopsIteration(text, data)
    /\ lastIndex' = 0
    /\ UNCHANGED <<format, waiting, template, data, options, pc, result, iteration, entry>>

\* The text outgrows what the engine can hold.
LoopOverflow ==
    /\ pc \in {"loops", "nestedLoops"}
    /\ lastIndex # 0
    /\ Len(processLoopsIteration(text, data)) > MaxTextLen
    /\ pc' = "overflow"
    /\ UNCHANGED <<format, waiting, template, data, options, text, result, iteration, entry, lastIndex>>

\* exec finds no match and processLoops returns to process.
LoopsReturn ==
    /\ pc = "loops"
    /\ ~HasLoopMatch(text)
    /\ pc' = After("loops", options)
    /\ UNCHANGED <<format, waiting, template, data, options, text, result, iteration, entry, lastIndex>>

Placeholders ==
    /\ pc = "placeholders"
    /\ text' = replacePlaceholders(text, data)
    /\ pc' = After("placeholders", options)
    /\ UNCHANGED <<format, waiting, template, data, options, result, iteration, entry, lastIndex>>

\* processNestedLoops: result = currentResult, then the call of processLoops.
NestedBegin ==
    /\ pc = "nested"
    /\ result' = text
    /\ iteration' = 0
    /\ pc' = "nestedLoops"
    /\ UNCHANGED <<format, waiting, template, data, options, text, entry, lastIndex>>

\* processLoops returns into the do-while of processNestedLoops: text is
\* currentResult.
NestedRepeat ==
    /\ pc = "nestedLoops"
    /\ ~HasLoopMatch(text)
    /\ text # result /\ iteration + 1 < maxIterations
    /\ iteration' = iteration + 1
    /\ result' = text
    /\ UNCHANGED <<format, waiting, template, data, options, pc, text, entry, lastIndex>>

\* The do-while ends and processNestedLoops returns result.
NestedReturn ==
    /\ pc = "nestedLoops"
    /\ ~HasLoopMatch(text)
    /\ ~(text # result /\ iteration + 1 < maxIterations)
    /\ iteration' = iteration + 1
    /\ text' = result
    /\ pc' = After("nested", options)
    /\ UNCHANGED <<format, waiting, template, data, options, result, entry, lastIndex>>

Conditional ==
    /\ pc = "conditional"
    /\ \E r \in {processConditionalElements(text, data)} :
          /\ ~r.threw
          /\ text' = r.text
    /\ pc' = After("conditional", options)
    /\ UNCHANGED <<format, waiting, template, data, options, result, iteration, entry, lastIndex>>

ConditionalThrow ==
    /\ pc = "conditional"
    /\ \E r \in {processConditionalElements(text, data)} : r.threw
    /\ pc' = "threw"
    /\ UNCHANGED <<format, waiting, template, data, options, text, result, iteration, entry, lastIndex>>

Layout ==
    /\ pc = "layout"
    /\ text' = processLayoutReordering(text, data)
    /\ pc' = After("layout", options)
    /\ UNCHANGED <<format, waiting, template, data, options, result, iteration, entry, lastIndex>>

SectionDecision(t) ==
    LET match == SectionMatch(t)
    IN  shouldRemoveSection(match.sectionName, match.sectionContent, data)

\* sectionRegex.exec finds a match.
SectionExec ==
    /\ pc = "sections"
    /\ lastIndex = 0
    /\ HasSectionMatch(text)
    /\ lastIndex' = SectionMatch(text).last
    /\ UNCHANGED <<format, waiting, template, data, options, pc, text, result, iteration, entry>>

\* The body of the while loop: the section is removed or unwrapped and
\* lastIndex reset.
SectionIterate ==
    /\ pc = "sections"
    /\ lastIndex # 0
    /\ SectionDecision(text) # "throw"
    /\ Len(removeEmptySectionsIteration(text, data)) <= MaxTextLen
    /\ text' = removeEmptySectionsIteration(text, data)
    /\ lastIndex' = 0
    /\ UNCHANGED <<format, waiting, template, data, options, pc, result, iteration, entry>>

SectionOverflow ==
    /\ pc = "sections"
    /\ lastIndex # 0
    /\ SectionDecision(text) # "throw"
    /\ Len(removeEmptySectionsIteration(text, data)) > MaxTextLen
    /\ pc' = "overflow"
    /\ UNCHANGED <<format, waiting, template, data, options, text, result, iteration, entry, lastIndex>>

SectionThrow ==
    /\ pc = "sections"
    /\ lastIndex # 0
    /\ SectionDecision(text) = "throw"
    /\ pc' = "threw"
    /\ UNCHANGED <<format, waiting, template, data, options, text, result, iteration, entry, lastIndex>>

SectionsReturn ==
    /\ pc = "sections"
    /\ ~HasSectionMatch(text)
    /\ pc' = After("sections", options)
    /\ UNCHANGED <<format, waiting, template, data, options, text, result, iteration, entry, lastIndex>>

Cleanup ==
    /\ pc = "cleanup"
    /\ text' = cleanupTemplate(text)
    /\ pc' = "done"
    /\ UNCHANGED <<format, waiting, template, data, options, result, iteration, entry, lastIndex>>

(***************************************************************************)
(* Calls of process: a body between fixed text, bare or wrapped in a loop  *)
(* region or in an About Me section.                                       *)
(***************************************************************************)
BodyTokens == {Ph("name"), Ph("index"), Dollar, Raw("amp")}

Bodies == SeqsUpTo(BodyTokens, MaxBody)

InLoop(body)  == <<LoopStart("items")>> \o body \o <<LoopEnd("items")>>
InAbout(body) == <<SecOpen("About Me")>> \o body \o <<SecClose("About Me")>>

ProcessTemplates ==
    {<<Txt("pre")>> \o w \o <<Txt("post")>> :
        w \in Bodies \cup {InLoop(b) : b \in Bodies} \cup {InAbout(b) : b \in Bodies}}

NoKey == <<>>       \* a context without a key

ProcessEntries == {NoKey, "name" :> Str(<<Txt("e")>>)}

PlainName    == {NoKey, "name" :> Str(<<Txt("g")>>)}
NameChoices  == PlainName \cup
                {"name" :> Str(<<Raw("amp")>>),
                 "name" :> Str(<<LoopStart("items"), Txt("v"), LoopEnd("items")>>)}
ItemsChoices == {NoKey} \cup {"items" :> Arr(a) : a \in SeqsUpTo(ProcessEntries, MaxEntries)}
AboutChoices == {NoKey} \cup
                {"aboutMeText" :> v : v \in {Str(<<>>), Str(<<Sp>>), Str(<<Txt("hi")>>), Num(5)}}
TitleChoices == {"title" :> Num(5), "title" :> Str(<<Txt("t")>>)}

ProcessDatas ==
    {n @@ i : n \in PlainName, i \in ItemsChoices}
    \cup {n @@ a : n \in NameChoices, a \in AboutChoices}
    \cup TitleChoices

ProcessOptions ==
    {DefaultOptions,
     [DefaultOptions EXCEPT !.processLoops = FALSE],
     [DefaultOptions EXCEPT !.processPlaceholders = FALSE],
     [DefaultOptions EXCEPT !.removeEmptySections = FALSE]}

\* Markup without a marker: text, newlines, a phone paragraph, a paragraph
\* of another class and an Instagram anchor.
PlainTokens ==
    {Txt("a"), Nl, Open("p", "class:phone"), Open("p", "class:note"), Close("p"),
     Open("a", "id:instagram"), Close("a")}

PlainDatas ==
    {NoKey,
     ("phone" :> Str(<<Txt("5")>>)) @@ ("instagramLink" :> Str(<<Txt("u")>>)),
     "title" :> Num(5)}

\* A phone paragraph around an About Me section.
PhoneAroundAbout ==
    {<<Open("p", "class:phone")>> \o InAbout(b) \o <<Close("p")>> : b \in {<<Nl>>, <<Txt("a")>>}}

\* A section whose name no named rule matches, around a body that
\* references the key caption.
GalleryTemplates ==
    {<<Txt("pre"), SecOpen("Gallery")>> \o b \o <<SecClose("Gallery"), Txt("post")>> :
        b \in {<<Ph("caption")>>, <<Txt("a"), Ph("caption")>>}}

GalleryDatas ==
    {NoKey} \cup
    {"caption" :> v : v \in {Str(<<>>), Null, Arr(<<>>), Str(<<Txt("c")>>)}}

\* <a id="instagram" href="{instagramLink}">IG</a>
SocialTemplates ==
    {<<Txt("pre"), TagStart("a", "id:instagram"), Ph("instagramLink"), TagEnd,
       Txt("IG"), Close("a"), Txt("post")>>}

SocialDatas ==
    {NoKey,
     "socialMedia" :> Obj("instagram" :> Str(<<Txt("u")>>)),
     ("instagramLink" :> Str(<<>>)) @@ ("socialMedia" :> Obj("instagram" :> Str(<<Txt("u")>>)))}
    \cup {"instagramLink" :> v :
            v \in {Str(<<>>), Str(<<Sp>>), Str(<<Txt("u")>>), Str(<<Txt("u"), Raw("amp")>>),
                   Num(5)}}

\* A Socials section around a TikTok anchor.
SocialsTemplates ==
    {<<Txt("pre"), SecOpen("Socials"), Open("a", "id:tiktok"), Txt("TT"), Close("a"),
       SecClose("Socials"), Txt("post")>>}

SocialsDatas ==
    {NoKey,
     "tikTokLink" :> Str(<<Txt("u")>>),
     "tikTokLink" :> Str(<<Sp>>),
     "socialMedia" :> Obj("tikTok" :> Str(<<Txt("u")>>)),
     "socialMedia" :> Obj("tiktok" :> Str(<<Txt("u")>>))}

\* A marker without its closing marker (the closing marker that follows
\* has another name), then a well-formed region of the same kind.
MalformedTemplates ==
    {<<Txt("pre"), LoopStart("rows"), Txt("a"), LoopEnd("cols")>>
        \o InLoop(<<Ph("name")>>) \o <<Txt("post")>>,
     <<Txt("pre"), SecOpen("Gallery"), Txt("a"), SecClose("Logo")>>
        \o InAbout(<<Txt("b")>>) \o <<Txt("post")>>,
     <<Txt("pre"), BlockOpen("A"), Txt("a"), BlockClose("B"), BlockOpen("C"), Txt("c"),
       BlockClose("C"), Txt("post")>>}

MalformedDatas ==
    {NoKey,
     ("name" :> Str(<<Txt("g")>>))
        @@ ("items" :> Arr(<<"name" :> Str(<<Txt("e")>>), NoKey>>)),
     "aboutMeText" :> Str(<<Txt("hi")>>)}

\* Two loop regions side by side, over entries whose value may bring in a
\* third.
TwoLoopTemplates ==
    {<<Txt("pre")>> \o InLoop(<<Ph("name")>>)
        \o <<LoopStart("rows"), Ph("index"), LoopEnd("rows"), Txt("post")>>}

TwoLoopDatas ==
    {NoKey,
     "items" :> Arr(<<"name" :> Str(<<Txt("e")>>), NoKey>>),
     ("items" :> Arr(<<"name" :> Str(<<Txt("e")>>)>>)) @@ ("rows" :> Arr(<<NoKey, NoKey>>)),
     ("items" :> Arr(<<"name" :> Str(<<LoopStart("rows"), Txt("v"), LoopEnd("rows")>>)>>))
        @@ ("rows" :> Arr(<<NoKey>>))}

\* Further calls of process: on markup without a marker, on a paragraph
\* around a section, on a section of no named rule, on a social anchor, on
\* a Socials section, on markers that are not paired and on two loop regions.
PageCases ==
    {[template |-> t, data |-> d] : t \in SeqsUpTo(PlainTokens, MaxBody + 1), d \in PlainDatas}
    \cup {[template |-> t, data |-> d] :
            t \in PhoneAroundAbout, d \in {NoKey, "aboutMeText" :> Str(<<Txt("hi")>>)}}
    \cup {[template |-> t, data |-> d] : t \in GalleryTemplates, d \in GalleryDatas}
    \cup {[template |-> t, data |-> d] : t \in SocialTemplates, d \in SocialDatas}
    \cup {[template |-> t, data |-> d] : t \in SocialsTemplates, d \in SocialsDatas}
    \cup {[template |-> t, data |-> d] : t \in MalformedTemplates, d \in MalformedDatas}
    \cup {[template |-> t, data |-> d] : t \in TwoLoopTemplates, d \in TwoLoopDatas}

InitProcess ==
    /\ \/ /\ template \in ProcessTemplates
          /\ data \in ProcessDatas
       \/ \E c \in PageCases :
             /\ template = c.template
             /\ data = c.data
    /\ options \in ProcessOptions
    /\ pc = "start"
    /\ text = template
    /\ Unused

NextProcess ==
    \/ Begin
    \/ LoopExec
    \/ LoopIterate
    \/ LoopOverflow
    \/ LoopsReturn
    \/ Placeholders
    \/ NestedBegin
    \/ NestedRepeat
    \/ NestedReturn
    \/ Conditional
    \/ ConditionalThrow
    \/ Layout
    \/ SectionExec
    \/ SectionIterate
    \/ SectionOverflow
    \/ SectionThrow
    \/ SectionsReturn
    \/ Cleanup

SpecProcess == InitProcess /\ [][NextProcess]_vars

\* The call is scheduled until it returns or throws: a step that is
\* possible is eventually taken.
FairProcess == SpecProcess /\ WF_vars(NextProcess)

(***************************************************************************)
(* Claims about process and its loops.                                     *)
(***************************************************************************)
\* What claim C2 says one replacement of processLoops leaves: the text
\* before the first well-formed region, the renderings of its body, one per
\* entry of data[name] in entry order and joined by one newline (none when
\* data[name] is missing, not an array or empty), and the text after it.
C2_Renderings(body, name) ==
    LET v == Get(data, name)
        n == IF v.ty = "arr" THEN Len(v.items) ELSE 0
    IN  [i \in 1..n |-> processComplexDataInLoop(ReplaceIndex(body, i - 1), v.items[i], data)]

C2_Expected(t) ==
    LET m == LoopMatch(t)
    IN  Slice(t, 1, m.first - 1)
        \o Join(C2_Renderings(m.loopTemplate, m.loopName), <<Nl>>)
        \o Slice(t, m.last + 1, Len(t))

\* C2: every replacement of loop expansion puts exactly the n renderings of
\* the body, joined by a newline, in the place of the region and changes
\* nothing outside it.
C2_RegionBecomesRenderings ==
    [][(pc = "loops" /\ lastIndex # 0 /\ pc' = "loops") => text' = C2_Expected(text)]_vars

C4_Template == \E b \in Bodies : template = <<Txt("pre")>> \o InAbout(b) \o <<Txt("post")>>

C4_Body == SubSeq(template, 3, Len(template) - 2)

C4_Data == \E n \in PlainName, a \in AboutChoices : data = n @@ a

C4_AboutBlank ==
    LET v == Get(data, "aboutMeText")
    IN  ~Truthy(v) \/ (v.ty = "str" /\ IsBlank(v.s))

\* C4: once process has returned for a template that wraps a body in the
\* About Me section markers, the output holds neither marker; it holds
\* nothing of the section when aboutMeText is absent, empty or blank, and the
\* body with its placeholders resolved when aboutMeText is non-blank.
C4_AboutMeSection ==
    (pc = "done" /\ options = DefaultOptions /\ C4_Template /\ C4_Data) =>
        /\ ~HasTok(SecOpen("About Me"), text)
        /\ ~HasTok(SecClose("About Me"), text)
        /\ C4_AboutBlank => text = <<Txt("pre"), Txt("post")>>
        /\ ~C4_AboutBlank =>
              text = <<Txt("pre")>> \o replacePlaceholders(C4_Body, data) \o <<Txt("post")>>

\* C8: process never throws, whatever the types of the values of the data.
C8_NeverThrows == pc # "threw"

\* C9: every call of process comes to an end: it returns, or it throws or
\* exhausts the engine, after finitely many replacements.
C9_Terminates == <>(pc \in {"done", "threw", "overflow"})

(***************************************************************************)
(* Calls of the resolvers on their own: replacePlaceholders on a template  *)
(* and the data, processComplexDataInLoop on a template, an entry of       *)
(* data.items and the data, and the callback of processLoops on a loop     *)
(* body and an entry.                                                      *)
(***************************************************************************)
ResolveTokens == {Ph("name"), Ph("index"), Ph("other"), Txt("a")}

ResolveTemplates == SeqsUpTo(ResolveTokens, MaxBody)

ResolveEntries ==
    {NoKey, "name" :> Str(<<Txt("e")>>), "name" :> Str(<<Txt("f")>>),
     "index" :> Str(<<Txt("own")>>)}

ResolveGlobals ==
    {NoKey, "name" :> Str(<<Txt("g")>>), "name" :> Null, "index" :> Str(<<Txt("gi")>>)}

\* One placeholder and one value for its key, owned by the data and by the
\* first of two entries.
RenderKeys == {"name", "addContact", "stars", "imageUrl"}

RenderChars ==
    {Raw("amp"), Raw("lt"), Raw("gt"), Raw("quot"), Raw("apos"), Txt("a"), Sp}

\* Strings that hold one numeral: alone, after whitespace, before or after
\* other text.
NumericStrings ==
    {<<Txt(n)>> : n \in Numerals}
    \cup {<<Sp, Txt("3")>>, <<Txt("3"), Txt("a")>>, <<Txt("a"), Txt("3")>>,
          <<Txt("2.5"), Sp>>}

RenderValues ==
    {Str(c) : c \in SeqsUpTo(RenderChars, MaxBody) \cup NumericStrings}
    \cup {Null, Undefined, Bool(TRUE)}
    \cup {Num(n) : n \in {-1, 0, 3, 5, 7}} \cup {Dec(t) : t \in {-5, 27}}

InitResolve ==
    /\ \/ /\ template \in ResolveTemplates
          /\ \E g \in ResolveGlobals, a \in SeqsUpTo(ResolveEntries, MaxEntries) :
                data = g @@ ("items" :> Arr(a))
       \/ \E key \in RenderKeys, v \in RenderValues :
             /\ template = <<Ph(key)>>
             /\ data = (key :> v) @@ ("items" :> Arr(<<key :> v, NoKey>>))
    /\ options = DefaultOptions
    /\ pc = "start"
    /\ text = template
    /\ Unused

Resolve ==
    /\ pc = "start"
    /\ text' = replacePlaceholders(template, data)
    /\ pc' = "resolved"
    /\ UNCHANGED <<format, waiting, template, data, options, result, iteration, entry, lastIndex>>

ResolveInLoop ==
    /\ pc = "start"
    /\ \E i \in 1..Len(data["items"].items) :
          /\ entry' = i
          /\ text' = processComplexDataInLoop(template, data["items"].items[i], data)
    /\ pc' = "resolvedInLoop"
    /\ UNCHANGED <<format, waiting, template, data, options, result, iteration, lastIndex>>

\* The callback of loopData.map in processLoops, on entry i (index i - 1).
RenderEntry ==
    /\ pc = "start"
    /\ \E i \in 1..Len(data["items"].items) :
          /\ entry' = i
          /\ text' = ItemOutput(template, data["items"].items[i], i - 1, data)
    /\ pc' = "rendered"
    /\ UNCHANGED <<format, waiting, template, data, options, result, iteration, lastIndex>>

NextResolve ==
    \/ Resolve
    \/ ResolveInLoop
    \/ RenderEntry

SpecResolve == InitResolve /\ [][NextResolve]_vars

(***************************************************************************)
(* Claims about the resolvers.                                             *)
(***************************************************************************)
\* The entry a resolver was run on.
C1_Item == data["items"].items[entry]

C3_Piece(t, reserved) ==
    LET ordinal == <<Txt(ToString(entry - 1))>>
    IN  IF t.k # "ph" THEN <<t>>
        ELSE IF reserved /\ t.a = "index" THEN ordinal
        ELSE IF hasOwnProperty(C1_Item, t.a) THEN RenderInLoop(C1_Item[t.a], t.a)
        ELSE IF hasOwnProperty(data, t.a) THEN RenderInLoop(data[t.a], t.a)
        ELSE IF t.a = "index" THEN ordinal
        ELSE <<t>>

\* C3: in the rendering of an entry every key is looked up in the entry
\* first and in the top-level data only when the entry does not own it.
C3_EntryFirst ==
    pc = "rendered" => text = Flatten([p \in 1..Len(template) |-> C3_Piece(template[p], FALSE)])

\* C3, amended: the same for every key but the reserved key index, whose
\* token is the ordinal of the entry whoever owns a key of that name.
C3_EntryFirstExceptIndex ==
    pc = "rendered" => text = Flatten([p \in 1..Len(template) |-> C3_Piece(template[p], TRUE)])

\* The second of two entries, which owns name as do the first entry and the
\* data, each with a value of its own, has been rendered.
C3_Witness ==
    /\ pc = "rendered"
    /\ entry = 2
    /\ template = <<Ph("name"), Ph("index")>>
    /\ data["items"].items[1] = "name" :> Str(<<Txt("e")>>)
    /\ data["items"].items[2] = "name" :> Str(<<Txt("f")>>)
    /\ Get(data, "name") = Str(<<Txt("g")>>)
    /\ text = <<Txt("f"), Txt("1")>>

\* A template of one placeholder, whose key has a value, has been resolved.
C10_Case ==
    /\ pc \in {"resolved", "resolvedInLoop"}
    /\ Len(template) = 1
    /\ template[1].k = "ph"
    /\ hasOwnProperty(data, template[1].a)

C10_Key == template[1].a

\* The value that was substituted.
C10_Value ==
    IF pc = "resolvedInLoop" /\ hasOwnProperty(C1_Item, C10_Key)
    THEN C1_Item[C10_Key]
    ELSE data[C10_Key]

\* No raw <, >, double or single quote, and every & begins an entity.
C10_Escaped(s) ==
    \A p \in 1..Len(s) :
        s[p].k = "raw" =>
            /\ s[p].a = "amp"
            /\ p < Len(s)
            /\ s[p + 1].k = "txt"
            /\ s[p + 1].a \in EntityTails

C10_Nullish == C10_Value.ty \in {"null", "undef"}

Block(id, content) == <<BlockOpen(id)>> \o content \o <<BlockClose(id)>>

ContentsOf(t) == SeqsUpTo({Txt(t), Dollar, Raw("amp")}, MaxBody)

Flat(cA, cB) == Block("A", cA) \o <<Txt("-")>> \o Block("B", cB)

Nested(cA, cB) == Block("A", cA \o Block("B", cB))

Container(cA, cB) == <<Txt("pre"), ReorderOpen>> \o Flat(cA, cB) \o <<ReorderClose, Txt("post")>>

Name(id) == Str(<<Txt(id)>>)

LayoutSwap(x, y) == "swaps" :> Arr(<<("from" :> Name(x)) @@ ("to" :> Name(y))>>)

LayoutOrders ==
    {<<Name("B"), Name("A")>>, <<Name("C"), Name("B")>>, <<Name("constructor"), Name("A")>>}

LayoutDatas ==
    {NoKey, LayoutSwap("A", "B"), LayoutSwap("A", "C")}
    \cup {"layoutOrder" :> Arr(o) : o \in LayoutOrders}

InitLayout ==
    /\ \E cA \in ContentsOf("x"), cB \in ContentsOf("y") :
          template \in {Flat(cA, cB),
                        <<Swap("A", "B")>> \o Flat(cA, cB),
                        <<Swap("A", "C")>> \o Flat(cA, cB),
                        Flat(<<Swap("A", "B")>> \o cA, cB),
                        Nested(cA, cB),
                        Container(cA, cB)}
    /\ data \in LayoutDatas
    /\ options = DefaultOptions
    /\ pc = "layout"
    /\ text = template
    /\ Unused

NextLayout ==
    \/ Layout
    \/ SectionsReturn
    \/ Cleanup

SpecLayout == InitLayout /\ [][NextLayout]_vars

(***************************************************************************)
(* Claims about the layout pass.                                           *)
(***************************************************************************)
\* The contents the template gives its blocks A and B.
C5_Contents ==
    CHOOSE c \in ContentsOf("x") \X ContentsOf("y") :
        template \in {Flat(c[1], c[2]),
                      <<Swap("A", "B")>> \o Flat(c[1], c[2]),
                      <<Swap("A", "C")>> \o Flat(c[1], c[2]),
                      Flat(<<Swap("A", "B")>> \o c[1], c[2]),
                      Nested(c[1], c[2]),
                      Container(c[1], c[2])}

\* The content of the block an entry of layoutOrder names, nothing when it
\* names no block.
C5_Listed(x) ==
    IF x = Name("A") THEN C5_Contents[1]
    ELSE IF x = Name("B") THEN C5_Contents[2]
    ELSE <<>>

\* C5: with an array data.layoutOrder, the layout pass puts in the place of
\* the whole reorder container the contents of the listed blocks, in listed
\* order, skipping the identifiers that name no block.
C5_ContainerReplaced ==
    (/\ pc = "sections"
     /\ template = Container(C5_Contents[1], C5_Contents[2])
     /\ Get(data, "layoutOrder").ty = "arr") =>
        text = <<Txt("pre")>>
               \o Flatten([k \in 1..Len(data["layoutOrder"].items) |->
                              C5_Listed(data["layoutOrder"].items[k])])
               \o <<Txt("post")>>

\* One swap of A with the block or non-block other is asked for, inline or
\* in data.swaps, of two blocks side by side.
C6_SwapOf(other) ==
    \/ template = <<Swap("A", other)>> \o Flat(C5_Contents[1], C5_Contents[2]) /\ data = NoKey
    \/ template = Flat(C5_Contents[1], C5_Contents[2]) /\ data = LayoutSwap("A", other)

\* C6: a swap of two blocks puts each block's original content at the
\* other's position, whatever the contents; a swap that names something
\* that is no block leaves both where they were.
C6_SwapsExchange ==
    pc = "sections" =>
        /\ C6_SwapOf("B") => text = C5_Contents[2] \o <<Txt("-")>> \o C5_Contents[1]
        /\ C6_SwapOf("C") => text = C5_Contents[1] \o <<Txt("-")>> \o C5_Contents[2]

\* C7: no block marker is left in the output of the layout pass, nor in the
\* output of process.
C7_NoBlockMarkers ==
    pc \in {"sections", "cleanup", "done"} =>
        \A p \in 1..Len(text) : text[p].k \notin {"bo", "bc"}

(***************************************************************************)
(* Claims about the stars rendering.                                       *)
(***************************************************************************)
\* The number a stars value denotes, in tenths, as a set: the number itself,
\* or the numeral a string starts with after its leading whitespace; empty
\* for every other value.
C11_Number(v) ==
    CASE v.ty = "num" -> {v.n}
      [] v.ty = "str" ->
            {NumeralValue(v.s[p].a) : p \in
                {q \in 1..Len(v.s) :
                    /\ v.s[q].k = "txt" /\ v.s[q].a \in Numerals
                    /\ \A r \in 1..(q - 1) : v.s[r].k = "ws"}}
      [] OTHER -> {}

\* The largest whole number that is at most t tenths.
C11_Floor(t) == CHOOSE k \in -2..8 : 10 * k <= t /\ t < 10 * (k + 1)

C11_Glyphs(filled) == [i \in 1..5 |-> IF i <= filled THEN Filled ELSE Empty]

Export ==
    /\ pc = "export"
    /\ format \in {"html", "markdown", "text", "json", "ast"}
    /\ \E timestamp \in Timestamps : result' = ExportResult(template, format, timestamp)
    /\ pc' = "exported"
    /\ UNCHANGED <<format, waiting, template, data, options, text, iteration, entry, lastIndex>>

\* export throws: the default case of its switch.
ExportThrow ==
    /\ pc = "export"
    /\ format \notin {"html", "markdown", "text", "json", "ast"}
    /\ result' = UnsupportedFormat(format)
    /\ pc' = "threw"
    /\ UNCHANGED <<format, waiting, template, data, options, text, iteration, entry, lastIndex>>

ExportTokens ==
    {Txt("a"), Nl, SecOpen("About Me"),
     Open("h1", ""), Close("h1"), Open("p", "class:phone"), Close("p"),
     Open("a", "href:u"), Close("a"), Open("br", ""), Close("b")}

ExportFormats == {"html", "markdown", "text", "json", "ast", "pdf", "HTML"}

\* export is called on markup of up to MaxBody + 1 tokens.
InitExport ==
    /\ template \in SeqsUpTo(ExportTokens, MaxBody + 1)
    /\ \E fmt \in ExportFormats :
          /\ result = <<>>
          /\ iteration = 0
          /\ entry = 0
          /\ lastIndex = 0
          /\ format = fmt
          /\ waiting = NoCall
    /\ data = NoKey
    /\ options = DefaultOptions
    /\ pc = "export"
    /\ text = <<>>

NextExport ==
    \/ Export
    \/ ExportThrow

SpecExport == InitExport /\ [][NextExport]_vars

(***************************************************************************)
(* Claims about export.                                                    *)
(***************************************************************************)
C12_Listed ==
    \E k \in 1..Len(getSupportedExportFormats) : getSupportedExportFormats[k] = format

\* C12: export throws an error whose message names the format exactly when
\* the format is not one of those getSupportedExportFormats lists, and
\* returns a result for every format that is listed.
C12_ThrowsIffUnsupported ==
    /\ pc = "threw" =>
          /\ ~C12_Listed
          /\ \E p \in 1..Len(result) : result[p] = Txt(format)
    /\ pc = "exported" => C12_Listed
    /\ pc = "export" => (ENABLED Export <=> C12_Listed) /\ (ENABLED ExportThrow <=> ~C12_Listed)

\* export has thrown on the format pdf.
C12_Witness ==
    /\ pc = "threw"
    /\ format = "pdf"
    /\ result = <<Txt("Unsupported export format: "), Txt("pdf")>>

(***************************************************************************)
(* Two calls of process on one engine.  The engine holds the options and   *)
(* nothing else; everything a call works on (processedTemplate, result,    *)
(* iteration, the regular expressions and their lastIndex, the block map)  *)
(* is a local variable of the call.  One call runs; the other waits with   *)
(* its local variables saved; Yield hands the processor from one to the    *)
(* other between any two steps.                                            *)
(***************************************************************************)
\* The arguments and local variables of the call that is running.
Frame ==
    [template |-> template, data |-> data, pc |-> pc, text |-> text,
     result |-> result, iteration |-> iteration, lastIndex |-> lastIndex]

\* The variant in which processedTemplate belongs to the engine: the call
\* that resumes works on the text the other call left.
RestoredSharingText(saved) == [saved EXCEPT !.text = text]

\* The local variables a call finds when it resumes: its own.
Restored(saved) == saved

Yield ==
    /\ waiting.pc # "none"
    /\ waiting' = Frame
    /\ \E r \in {Restored(waiting)} :
          /\ template' = r.template
          /\ data' = r.data
          /\ pc' = r.pc
          /\ text' = r.text
          /\ result' = r.result
          /\ iteration' = r.iteration
          /\ lastIndex' = r.lastIndex
    /\ UNCHANGED <<format, options, entry>>

\* What a call is given.
CallInput(t, d) == [template |-> <<Txt("pre")>> \o t \o <<Txt("post")>>, data |-> d]

CallInputs ==
    {CallInput(<<Ph("name")>>, "name" :> Str(<<Txt("g")>>)),
     CallInput(InLoop(<<Ph("name")>>),
               ("name" :> Str(<<Txt("g")>>))
               @@ ("items" :> Arr(<<"name" :> Str(<<Txt("e")>>), NoKey>>))),
     CallInput(InLoop(<<Dollar, Raw("amp")>>), "items" :> Arr(<<NoKey, NoKey>>)),
     CallInput(InAbout(<<Dollar, Ph("name")>>),
               ("name" :> Str(<<Raw("amp")>>)) @@ ("aboutMeText" :> Str(<<Txt("hi")>>))),
     CallInput(InAbout(<<>>), "aboutMeText" :> Num(5)),
     CallInput(<<>>, "title" :> Num(5)),
     CallInput(<<Ph("name")>>,
               "name" :> Str(<<LoopStart("items"), Txt("v"), LoopEnd("items")>>))}

InitCalls ==
    /\ \E first \in CallInputs, second \in CallInputs :
          /\ template = first.template
          /\ data = first.data
          /\ waiting = [template |-> second.template, data |-> second.data,
                        pc |-> "start", text |-> second.template, result |-> <<>>,
                        iteration |-> 0, lastIndex |-> 0]
    /\ options \in ProcessOptions
    /\ pc = "start"
    /\ text = template
    /\ result = <<>>
    /\ iteration = 0
    /\ entry = 0
    /\ lastIndex = 0
    /\ format = ""

NextCalls ==
    \/ NextProcess
    \/ Yield

SpecCalls == InitCalls /\ [][NextCalls]_vars

\* The arguments of the two calls.
C13_Arguments ==
    {[template |-> template, data |-> data],
     [template |-> waiting.template, data |-> waiting.data]}

\* What a call that has ended came to, against process on its arguments
\* alone.
C13_AsAlone(call) ==
    /\ call.pc = "done" =>
          process(call.template, call.data, options) = Outcome("done", call.text)
    /\ call.pc \in {"threw", "overflow"} =>
          process(call.template, call.data, options).status = call.pc

\* C13: no step of a call writes the engine's options or the data and
\* template of either call, and each of two calls interleaved in any way
\* ends with what process returns (or throws) on its arguments alone.
C13_CallsShareNothing ==
    [][/\ options' = options
       /\ C13_Arguments' = C13_Arguments
       /\ C13_AsAlone(Frame')
       /\ C13_AsAlone(waiting')]_vars

\* One call has returned its own result while the other waits between the
\* exec and the replacement of its loop expansion.
C13_Witness ==
    /\ pc = "done"
    /\ text = <<Txt("pre"), Txt("g"), Txt("post")>>
    /\ waiting.pc = "loops"
    /\ waiting.lastIndex # 0
    /\ waiting.text = <<Txt("pre")>> \o InLoop(<<Ph("name")>>) \o <<Txt("post")>>

(***************************************************************************)
(* Claims about process on markup without markers.                         *)
(***************************************************************************)
C14_Markers == {"ph", "ls", "le", "so", "sc", "bo", "bc", "ro", "rc", "swap"}

C14_MarkerFree(t) == \A p \in 1..Len(t) : t[p].k \notin C14_Markers

\* The attributes the element pruning looks for.
C14_PrunedAttributes ==
    {"class:phone", "class:website", "class:address", "id:title"}
    \cup {"id:" \o socialMediaFields[k].id : k \in 1..Len(socialMediaFields)}

C14_HasPrunable(t) ==
    \E p \in 1..Len(t) : t[p].k = "open" /\ t[p].b \in C14_PrunedAttributes

\* C14 as stated: for a template without a marker, whatever the data,
\* process returns the template changed by the whitespace cleanup only.
C14_IdentityModuloCleanup ==
    (C14_MarkerFree(template) /\ pc = "done") => text = cleanupTemplate(template)

\* C14, amended: for a template without a marker, process returns the
\* template changed by the element pruning and then the whitespace cleanup
\* only, so by the cleanup only when the template holds no element the
\* pruning looks for; when it does not return, the element pruning threw.
C14_PrunedThenCleaned ==
    C14_MarkerFree(template) =>
        /\ pc = "done" =>
              text = cleanupTemplate(processConditionalElements(template, data).text)
        /\ (pc = "done" /\ ~C14_HasPrunable(template)) => text = cleanupTemplate(template)
        /\ pc = "threw" => processConditionalElements(template, data).threw
        /\ pc # "overflow"

\* process has returned a phone paragraph's surroundings without the
\* paragraph, the data having no phone.
C14_Witness ==
    /\ pc = "done"
    /\ template = <<Txt("a"), Open("p", "class:phone"), Close("p")>>
    /\ data = NoKey
    /\ text = <<Txt("a")>>

\* C15: when process has returned a text that holds no marker, process on
\* that text with the same data returns it unchanged.
C15_FixedPoint ==
    (pc = "done" /\ C14_MarkerFree(text)) =>
        process(text, data, options) = Outcome("done", text)

\* C16: with placeholder resolution on, process replaces a placeholder
\* whose key the data does not have by the empty string: the output is the
\* template without the token, and holds no token of a missing key.
C16_MissingKeyBecomesEmpty ==
    (/\ pc = "done"
     /\ options.processPlaceholders
     /\ template = <<Txt("pre"), Ph("name"), Txt("post")>>
     /\ ~hasOwnProperty(data, "name")) =>
        /\ text = <<Txt("pre"), Txt("post")>>
        /\ \A p \in 1..Len(text) : text[p].k # "ph"

(***************************************************************************)
(* Claims about sections that no named rule matches.                       *)
(***************************************************************************)
\* The call is on a Gallery section around the given body.
C17_GalleryAround(body) ==
    template = <<Txt("pre"), SecOpen("Gallery")>> \o body \o <<SecClose("Gallery"), Txt("post")>>

\* C17: with the default options, process removes the whole of a section
\* that no named rule matches when its body references a key the data has
\* with the value '', null or []: markers and body are gone.
C17_EmptyValueRemovesSection ==
    (/\ pc = "done"
     /\ options = DefaultOptions
     /\ \E b \in {<<Ph("caption")>>, <<Txt("a"), Ph("caption")>>} : C17_GalleryAround(b)
     /\ hasOwnProperty(data, "caption")
     /\ data["caption"] \in {Str(<<>>), Null, Arr(<<>>)}) =>
        text = <<Txt("pre"), Txt("post")>>

\* C18: process removes a section that no named rule matches when the keys
\* its body references are absent from the data: markers and body are
\* gone, the text outside is kept.
C18_AbsentKeyRemovesSection ==
    (/\ pc = "done"
     /\ options = DefaultOptions
     /\ \E b \in {<<Ph("caption")>>, <<Txt("a"), Ph("caption")>>} : C17_GalleryAround(b)
     /\ ~hasOwnProperty(data, "caption")) =>
        text = <<Txt("pre"), Txt("post")>>

(***************************************************************************)
(* Claims about the social anchors.                                        *)
(***************************************************************************)
\* The value of the Instagram field: data.instagramLink, or failing that
\* data.socialMedia.instagram; undefined when there is neither.
C19_Value == OrElse(Get(data, "instagramLink"), SocialMediaGet(data, "instagram"))

C19_Blank == ~Truthy(C19_Value) \/ (C19_Value.ty = "str" /\ IsBlank(C19_Value.s))

\* C19: for the pair (instagramLink, instagram), with the default options:
\* when the field's value is missing or blank, process deletes the anchor
\* with that id together with its content; when it is not blank, the
\* anchor is kept and its href holds the value.
C19_AnchorFollowsValue ==
    (/\ pc = "done"
     /\ options = DefaultOptions
     /\ template \in SocialTemplates) =>
        /\ C19_Blank => text = <<Txt("pre"), Txt("post")>>
        /\ ~C19_Blank =>
              text = <<Txt("pre"), TagStart("a", "id:instagram")>>
                     \o escapeHtml(C19_Value)
                     \o <<TagEnd, Txt("IG"), Close("a"), Txt("post")>>

(***************************************************************************)
(* Claims about the options.                                               *)
(***************************************************************************)
C20_Count(t, s) == Cardinality({p \in 1..Len(s) : s[p] = t})

\* C20: with processPlaceholders off, process leaves every {name} token as
\* it is: a template without a loop region is returned with all its
\* tokens, and every rendering of a loop body holds the body's tokens.
C20_TokensLeftVerbatim ==
    (pc = "done" /\ ~options.processPlaceholders) =>
        \A b \in Bodies :
            /\ template = <<Txt("pre")>> \o b \o <<Txt("post")>> => text = template
            /\ (/\ template = <<Txt("pre")>> \o InLoop(b) \o <<Txt("post")>>
                /\ Dollar \notin {b[p] : p \in 1..Len(b)}
                /\ Get(data, "items").ty = "arr") =>
                  C20_Count(Ph("name"), text)
                      = Len(data["items"].items) * C20_Count(Ph("name"), b)

(***************************************************************************)
(* Claims about the passes a toggle turns off.                             *)
(***************************************************************************)
\* The body of a template that wraps it in a loop region, or in an About Me
\* section, between fixed text.
C21_LoopBodies == {b \in Bodies : template = <<Txt("pre")>> \o InLoop(b) \o <<Txt("post")>>}

C21_AboutBodies == {b \in Bodies : template = <<Txt("pre")>> \o InAbout(b) \o <<Txt("post")>>}

\* C21: with processLoops off the call is never in the loop pass nor in the
\* nested-loop repeat, and a loop region comes back with both its markers
\* around its body, unexpanded, whatever the data; with removeEmptySections
\* off the call is never in the section pass, and an About Me section comes
\* back with both its markers around what the other passes make of its
\* body, whatever the data.
C21_SkippedPassLeavesMarkers ==
    /\ ~options.processLoops =>
          /\ pc \notin {"loops", "nested", "nestedLoops"}
          /\ pc = "done" =>
                \A b \in C21_LoopBodies :
                    text = <<Txt("pre"), LoopStart("items")>>
                           \o (IF options.processPlaceholders
                               THEN replacePlaceholders(b, data) ELSE b)
                           \o <<LoopEnd("items"), Txt("post")>>
    /\ ~options.removeEmptySections =>
          /\ pc # "sections"
          /\ pc = "done" =>
                \A b \in C21_AboutBodies :
                    text = <<Txt("pre"), SecOpen("About Me")>>
                           \o process(b, data, options).text
                           \o <<SecClose("About Me"), Txt("post")>>

\* With processLoops off, a call on a loop region over two entries has
\* returned the region with its markers and its body resolved from the
\* top-level data.
C21_Witness ==
    /\ pc = "done"
    /\ ~options.processLoops
    /\ template = <<Txt("pre")>> \o InLoop(<<Ph("name")>>) \o <<Txt("post")>>
    /\ Get(data, "items").ty = "arr" /\ Len(data["items"].items) = 2
    /\ text = <<Txt("pre"), LoopStart("items"), Txt("g"), LoopEnd("items"), Txt("post")>>

\* With removeEmptySections off, a call on an About Me section has returned
\* the section with its markers, the data having an empty aboutMeText.
C21_WitnessSection ==
    /\ pc = "done"
    /\ ~options.removeEmptySections
    /\ template = <<Txt("pre")>> \o InAbout(<<Ph("name")>>) \o <<Txt("post")>>
    /\ Get(data, "aboutMeText") = Str(<<>>)
    /\ text[2] = SecOpen("About Me")

(***************************************************************************)
(* Claims about the order of the stages.                                   *)
(***************************************************************************)
\* The stages in the order the claim gives them, between the call and the
\* return.
C22_Order ==
    <<"start", "loops", "placeholders", "nested", "conditional", "layout",
      "sections", "cleanup", "done">>

\* The stage a position of the call belongs to.
C22_Stage(p) == IF p = "nestedLoops" THEN "nested" ELSE p

\* Whether the options have a stage run.
C22_Runs(stage) ==
    CASE stage \in {"loops", "nested"} -> options.processLoops
      [] stage = "placeholders"        -> options.processPlaceholders
      [] stage = "sections"            -> options.removeEmptySections
      [] OTHER                         -> TRUE

C22_Index(stage) == CHOOSE i \in 1..Len(C22_Order) : C22_Order[i] = stage

\* The first stage after the given one that the options have run.
C22_NextStage(stage) ==
    LET later == {j \in (C22_Index(stage) + 1)..Len(C22_Order) : C22_Runs(C22_Order[j])}
    IN  C22_Order[CHOOSE j \in later : \A k \in later : j <= k]

\* C22: a call leaves a stage only for the next stage of the fixed order
\* that the options have run (or by throwing or giving up), so that every
\* such stage runs once and none runs twice; element pruning, layout and
\* cleanup are stages whatever the options; the call returns from the
\* cleanup only; and what it returns is the stages applied in that order,
\* each to the whole output of the one before.
C22_FixedStageOrder ==
    [][/\ C22_Stage(pc') # C22_Stage(pc) =>
             C22_Stage(pc') \in {C22_NextStage(C22_Stage(pc)), "threw", "overflow"}
       /\ \A s \in {"conditional", "layout", "cleanup"} : C22_Runs(s)
       /\ pc' = "done" =>
             /\ pc = "cleanup"
             /\ text' = cleanupTemplate(text)
             /\ process(template, data, options) = Outcome("done", text')]_vars

\* A loop region that placeholder resolution brought in with a value has
\* been expanded by the nested-loop repeat, and the call has returned.
C22_Witness ==
    /\ pc = "done"
    /\ options = DefaultOptions
    /\ template = <<Txt("pre"), Ph("name"), Txt("post")>>
    /\ Get(data, "name") = Str(<<LoopStart("items"), Txt("v"), LoopEnd("items")>>)
    /\ text = <<Txt("pre"), Txt("post")>>

(***************************************************************************)
(* Claims about the Socials section.                                       *)
(***************************************************************************)
\* Whether a social field has a non-blank value, the value being the one
\* the element pruning reads: data[field], or the entry of data.socialMedia
\* under the field's name without Link, as written or in lower case.
C23_HasValue(f) ==
    LET v == ElementSocialValue(data, f)
    IN  Truthy(v) /\ v.ty = "str" /\ ~IsBlank(v.s)

C23_SomeField == \E k \in 1..Len(socialMediaFields) : C23_HasValue(socialMediaFields[k])

\* C23: with the default options, process removes a Socials section
\* exactly when no social field has a non-blank value, under its own name
\* or in data.socialMedia under either form of its name; otherwise the
\* section's content is kept without the markers.
C23_SocialsFollowFields ==
    (pc = "done" /\ options = DefaultOptions /\ template \in SocialsTemplates) =>
        /\ C23_SomeField =>
              text = <<Txt("pre"), Open("a", "id:tiktok"), Txt("TT"), Close("a"), Txt("post")>>
        /\ ~C23_SomeField => text = <<Txt("pre"), Txt("post")>>

(***************************************************************************)
(* Claims about the swaps.                                                 *)
(***************************************************************************)
\* C24: the output of the layout pass holds no swap directive, wherever the
\* directive was written and whatever its identifiers name.
C24_NoSwapDirectiveLeft ==
    pc \in {"sections", "cleanup", "done"} =>
        \A p \in 1..Len(text) : text[p].k # "swap"

(***************************************************************************)
(* Calls of process that have come to the layout pass with three blocks A, *)
(* B and C, side by side or inside a reorder container, after up to two    *)
(* inline swap directives, and with up to two swaps in data.swaps.         *)
(***************************************************************************)
ThreeBlocks(cA) ==
    Block("A", cA) \o <<Txt("-")>> \o Block("B", <<Txt("y")>>) \o <<Txt("-")>>
    \o Block("C", <<Txt("z")>>)

SwapDirectives == {Swap("A", "B"), Swap("B", "C"), Swap("A", "constructor")}

SwapEntries ==
    {("from" :> Name("A")) @@ ("to" :> Name("B")),
     ("from" :> Name("B")) @@ ("to" :> Name("C")),
     ("from" :> Name("A")) @@ ("to" :> Name("constructor"))}

SwapDatas ==
    {NoKey} \cup {"swaps" :> Arr(s) : s \in SeqsUpTo(SwapEntries, MaxBody)}

SwapOrder == "layoutOrder" :> Arr(<<Name("C"), Name("A"), Name("B")>>)

InitSwaps ==
    /\ \E directives \in SeqsUpTo(SwapDirectives, MaxBody), cA \in {<<Txt("x")>>, <<>>},
          d \in SwapDatas :
          \/ /\ template = directives \o ThreeBlocks(cA)
             /\ data = d
          \/ /\ template = directives \o <<Txt("pre"), ReorderOpen>> \o ThreeBlocks(cA)
                           \o <<ReorderClose, Txt("post")>>
             /\ data = d @@ SwapOrder
    /\ options = DefaultOptions
    /\ pc = "layout"
    /\ text = template
    /\ Unused

SpecSwaps == InitSwaps /\ [][NextLayout]_vars

\* The identifiers a template's swaps name, pair by pair: the inline
\* directives in text order, then the entries of data.swaps in list order.
C25_Inline == SelectSeq(template, LAMBDA t : t.k = "swap")

C25_Pairs ==
    [k \in 1..Len(C25_Inline) |-> <<C25_Inline[k].a, C25_Inline[k].b>>]
    \o (IF "swaps" \in DOMAIN data
        THEN [k \in 1..Len(data["swaps"].items) |->
                 <<KeyOf(data["swaps"].items[k]["from"]), KeyOf(data["swaps"].items[k]["to"])>>]
        ELSE <<>>)

\* The contents of the three blocks as the template gives them.
C25_Extracted ==
    [id \in {"A", "B", "C"} |->
        LET i == CHOOSE p \in 1..Len(template) : template[p] = BlockOpen(id)
            j == CHOOSE p \in 1..Len(template) : template[p] = BlockClose(id)
        IN  Slice(template, i + 1, j - 1)]

\* One swap: the two contents change places when both identifiers name
\* blocks, and nothing changes otherwise.
C25_Exchange(m, pair) ==
    IF pair[1] \in DOMAIN m /\ pair[2] \in DOMAIN m
    THEN [m EXCEPT ![pair[1]] = m[pair[2]], ![pair[2]] = m[pair[1]]]
    ELSE m

\* The swaps from the k-th on, one after another.
RECURSIVE C25_Compose(_, _, _)
C25_Compose(m, pairs, k) ==
    IF k > Len(pairs) THEN m ELSE C25_Compose(C25_Exchange(m, pairs[k]), pairs, k + 1)

C25_Swapped == C25_Compose(C25_Extracted, C25_Pairs, 1)

\* C25: the output of the layout pass is the template with its directives
\* erased and each block (or, with a layoutOrder, the container) replaced by
\* the contents the map holds after all the swaps, applied one after
\* another, the inline ones in text order and then those of data.swaps in
\* list order.
C25_SwapsComposeInOrder ==
    pc = "sections" =>
        text = IF "layoutOrder" \in DOMAIN data
               THEN <<Txt("pre")>> \o C25_Swapped["C"] \o C25_Swapped["A"] \o C25_Swapped["B"]
                    \o <<Txt("post")>>
               ELSE C25_Swapped["A"] \o <<Txt("-")>> \o C25_Swapped["B"] \o <<Txt("-")>>
                    \o C25_Swapped["C"]

\* The block map right after extraction, and after all the swaps.
C28_Before == ExtractBlocks(template, 1, <<>>)

C28_After == LayoutBlocks(template, data)

C28_Names(blocks) == {blocks[k].name : k \in 1..Len(blocks)}

\* How many entries of a block map hold the given content as a string.
C28_Copies(blocks, content) ==
    Cardinality({k \in 1..Len(blocks) : ~blocks[k].fn /\ blocks[k].content = content})

\* C28: after all the swaps the block map has the identifiers it had right
\* after extraction, and its contents are the extracted contents, each as
\* many times as before.
C28_SwapsPermuteContents ==
    pc = "sections" =>
        /\ C28_Names(C28_After) = C28_Names(C28_Before)
        /\ \A k \in 1..Len(C28_After) : ~C28_After[k].fn
        /\ \A k \in 1..Len(C28_Before) :
              C28_Copies(C28_After, C28_Before[k].content)
                  = C28_Copies(C28_Before, C28_Before[k].content)

(***************************************************************************)
(* Claims about markers that are not paired.                               *)
(***************************************************************************)
\* What the claim has process return for a template of MalformedTemplates:
\* the unpaired markers and the text between them as they were, and the
\* well-formed region that follows processed.
C26_Expected ==
    CASE template[2] = LoopStart("rows") ->
            <<Txt("pre"), LoopStart("rows"), Txt("a"), LoopEnd("cols")>>
            \o Join(C2_Renderings(<<Ph("name")>>, "items"), <<Nl>>)
            \o <<Txt("post")>>
      [] template[2] = SecOpen("Gallery") ->
            <<Txt("pre"), SecOpen("Gallery"), Txt("a"), SecClose("Logo")>>
            \o (IF C4_AboutBlank THEN <<>> ELSE <<Txt("b")>>)
            \o <<Txt("post")>>
      [] OTHER ->
            <<Txt("pre"), BlockOpen("A"), Txt("a"), BlockClose("B"), Txt("c"), Txt("post")>>

\* C26: on a template with a loop, section or block marker that has no
\* closing marker of its name, followed by a well-formed region, process
\* does not throw or give up, no replacement of the loop pass or of the
\* section pass touches the unpaired marker, and with the default options
\* the call returns the unpaired marker as it was and the region processed.
C26_UnpairedMarkerIsText ==
    template \in MalformedTemplates =>
        /\ pc \notin {"threw", "overflow"}
        /\ pc \in {"loops", "nestedLoops", "sections"} =>
              SubSeq(text, 1, 4) = SubSeq(template, 1, 4)
        /\ (pc = "done" /\ options = DefaultOptions) => text = C26_Expected

\* process has returned a loop whose closing marker has another name as it
\* was, and the loop region after it as its two renderings.
C26_Witness ==
    /\ pc = "done"
    /\ options = DefaultOptions
    /\ template \in MalformedTemplates
    /\ template[2] = LoopStart("rows")
    /\ text = <<Txt("pre"), LoopStart("rows"), Txt("a"), LoopEnd("cols"),
                Txt("e"), Nl, Txt("g"), Txt("post")>>

(***************************************************************************)
(* Claims about the tree export.                                           *)
(***************************************************************************)
\* The markup without its comments.
C27_Stripped == SelectSeq(template, LAMBDA t : ~IsComment(t))

C27_HasTag(content) == \E p \in 1..Len(content) : content[p].k \in {"open", "close"}

\* The text of all the text nodes of a list of nodes, children included, in
\* the order of the tree.
RECURSIVE C27_AllText(_)
C27_AllText(nodes) ==
    Flatten([k \in 1..Len(nodes) |->
                IF nodes[k].type = "text" THEN nodes[k].content
                ELSE C27_AllText(nodes[k].children)])

\* The number of element nodes of a list of nodes, children included.
RECURSIVE C27_Elements(_)
C27_Elements(nodes) ==
    IF nodes = <<>> THEN 0
    ELSE (IF Head(nodes).type = "element"
          THEN 1 + C27_Elements(Head(nodes).children) ELSE 0)
         + C27_Elements(Tail(nodes))

\* A list of nodes as the claim describes one: a text node holds text that
\* is not blank and has no whitespace at either end; an element node has a
\* tag name, an attribute map and children, which are no node (an element
\* without a closing tag), one text node holding content without a tag, or
\* again such a list.
RECURSIVE C27_NodeList(_)
C27_NodeList(nodes) ==
    \A k \in 1..Len(nodes) :
        \/ /\ nodes[k].type = "text"
           /\ DOMAIN nodes[k] = {"type", "content"}
           /\ nodes[k].content # <<>>
           /\ Trim(nodes[k].content) = nodes[k].content
        \/ /\ nodes[k].type = "element"
           /\ DOMAIN nodes[k] = {"type", "tagName", "attributes", "children"}
           /\ nodes[k].tagName # ""
           /\ \/ /\ Len(nodes[k].children) = 1
                 /\ nodes[k].children[1].type = "text"
                 /\ ~C27_HasTag(nodes[k].children[1].content)
              \/ C27_NodeList(nodes[k].children)

\* The inner content of the element the markup starts with, as a set: empty
\* when the markup starts with no tag or the tag has no closing tag.
C27_FirstInner ==
    IF C27_Stripped # <<>> /\ C27_Stripped[1].k = "open" /\ PairedName(C27_Stripped, 1) # ""
    THEN {Slice(C27_Stripped, 2, j - 1) : j \in
             {x \in 2..Len(C27_Stripped) :
                 /\ C27_Stripped[x] = Close(PairedName(C27_Stripped, 1))
                 /\ \A y \in 2..(x - 1) : C27_Stripped[y] # Close(PairedName(C27_Stripped, 1))}}
    ELSE {}

\* C27: the tree export returns a flat list of text and element nodes that
\* holds no comment, has one element node for every tag opened, and holds
\* the text of the markup in source order; text around the tags is a node
\* only when it is not blank, and is trimmed; the children of a paired
\* element are the conversion of its inner content when that holds a tag,
\* and one text node holding the inner content as it is otherwise.
C27_TreeOfMarkup ==
    (pc = "exported" /\ format \in {"json", "ast"}) =>
        /\ result.type = "ast"
        /\ C27_NodeList(result.nodes)
        /\ \A p \in 1..Len(C27_AllText(result.nodes)) : ~IsComment(C27_AllText(result.nodes)[p])
        /\ C27_Elements(result.nodes)
              = Len(SelectSeq(C27_Stripped, LAMBDA t : t.k = "open"))
        /\ SelectSeq(C27_AllText(result.nodes), LAMBDA t : t.k = "txt")
              = SelectSeq(C27_Stripped, LAMBDA t : t.k = "txt")
        /\ \A inner \in C27_FirstInner :
              /\ result.nodes[1].type = "element"
              /\ result.nodes[1].children
                    = IF C27_HasTag(inner) THEN simpleHtmlParse(inner)
                      ELSE <<TextNode(inner)>>

\* The tree of <p class="phone"><br></p>: one element p whose only child is
\* the element br.
C27_Witness ==
    /\ pc = "exported"
    /\ format = "json"
    /\ template = <<Open("p", "class:phone"), Open("br", ""), Close("p")>>
    /\ result.nodes = <<ElementNode("p", [class |-> "phone"],
                                    <<ElementNode("br", <<>>, <<>>)>>)>>

(***************************************************************************)
(* Claims about loop expansion run again.                                  *)
(***************************************************************************)
\* A LOOP_START:name with a LOOP_END:name of the same name after it.
C29_WellFormedRegion(t) ==
    \E i \in 1..Len(t), j \in 1..Len(t) :
        i < j /\ t[i].k = "ls" /\ t[j].k = "le" /\ t[j].a = t[i].a

\* The text is one that loop expansion changes nothing of.
C29_Unchanged(t) == ~C29_WellFormedRegion(t) /\ processLoops(t, data) = Outcome("done", t)

\* C29: when the first loop expansion has returned, the text is what
\* processLoops makes of the template and holds no well-formed loop region,
\* and processLoops on it returns it unchanged; the nested-loop repeat runs
\* one pass, or two when the first changed the text, the second pass
\* changes nothing, and the text it hands on is again such a fixed point.
C29_LoopExpansionIdempotent ==
    /\ (/\ options.processLoops
        /\ pc = "placeholders" \/ (pc = "nested" /\ ~options.processPlaceholders)) =>
          /\ processLoops(template, data) = Outcome("done", text)
          /\ C29_Unchanged(text)
    /\ pc = "nestedLoops" =>
          /\ iteration \in {0, 1}
          /\ iteration = 1 => text = result /\ ~C29_WellFormedRegion(text)
    /\ (pc = "conditional" /\ options.processLoops) =>
          /\ iteration \in {1, 2}
          /\ C29_Unchanged(text)

\* The nested-loop repeat has returned after two passes: the first expanded
\* the region a placeholder's value brought in, the second changed nothing.
C29_Witness ==
    /\ pc = "conditional"
    /\ iteration = 2
    /\ template = <<Txt("pre"), Ph("name"), Txt("post")>>
    /\ text = <<Txt("pre"), Txt("post")>>
    /\ result = text

(***************************************************************************)
(* Claims about the reorder container.                                     *)
(***************************************************************************)
\* The identifiers data.layoutOrder lists.
C30_Order == [k \in 1..Len(data["layoutOrder"].items) |-> KeyOf(data["layoutOrder"].items[k])]

C30_IsListed(id) == \E k \in 1..Len(C30_Order) : C30_Order[k] = id

\* The content of the block an identifier names; nothing for an identifier
\* that names no block.
C30_Content(id) ==
    IF id = "A" THEN C5_Contents[1] ELSE IF id = "B" THEN C5_Contents[2] ELSE <<>>

\* C30: with an array data.layoutOrder and a reorder container around the
\* blocks A and B, the output of the layout pass holds between the text
\* before and after the container only the contents of the listed
\* identifiers, in listed order; the text between the blocks is gone, and
\* the text of a block that is not listed appears nowhere.
C30_OnlyListedContents ==
    (/\ pc = "sections"
     /\ template = Container(C5_Contents[1], C5_Contents[2])
     /\ Get(data, "layoutOrder").ty = "arr") =>
        /\ text = <<Txt("pre")>>
                  \o Flatten([k \in 1..Len(C30_Order) |-> C30_Content(C30_Order[k])])
                  \o <<Txt("post")>>
        /\ ~HasTok(Txt("-"), text)
        /\ ~C30_IsListed("A") => ~HasTok(Txt("x"), text)
        /\ ~C30_IsListed("B") => ~HasTok(Txt("y"), text)

====
